---- MODULE Spec2Model ----
(***************************************************************************)
(* A model of the luax preprocessor of reluax: the lexer (lexer.rs), the   *)
(* recursive-descent preprocessor (preprocessor.rs) and the public entry   *)
(* point preprocess (mod.rs).                                              *)
(*                                                                         *)
(* Text is modelled by TLA+ strings; SubSeq(src, i, j) is the Rust slice   *)
(* &src[i-1..j].  All characters are ASCII, so byte offsets are character  *)
(* offsets.  A grammar rule of the preprocessor is an operator from a      *)
(* preprocessor state to a result [s, k, a, v]: the state it leaves        *)
(* behind (Rust mutates self also on the error path), the outcome k ("Ok"  *)
(* or the LuaXError variant), the error's argument a and the value v of    *)
(* an Ok.                                                                  *)
(***************************************************************************)
EXTENDS Integers, Sequences, FiniteSets, TLC

(***************************************************************************)
(* Characters                                                              *)
(***************************************************************************)
None == ""

is_numeric(c) == c \in {"0", "1", "2", "3", "4", "5", "6", "7", "8", "9"}

is_valid_identifier_start(c) ==
  \/ c = "_"
  \/ c \in
     {"a", "b", "c", "d", "e", "f", "g", "h", "i", "j", "k", "l", "m",
     "n", "o", "p", "q", "r", "s", "t", "u", "v", "w", "x", "y", "z",
     "A", "B", "C", "D", "E", "F", "G", "H", "I", "J", "K", "L", "M",
     "N", "O", "P", "Q", "R", "S", "T", "U", "V", "W", "X", "Y", "Z"}

is_valid_in_identifier(c) == is_valid_identifier_start(c) \/ is_numeric(c)

IsWhitespaceChar(c) == c \in {" ", "\t", "\n"}

(***************************************************************************)
(* Tokens.  t is the variant, v the borrowed text of Identifier, Number,   *)
(* String and HtmlTextChar, q the StringType of a String.                  *)
(***************************************************************************)
Tok(t) == [t |-> t, v |-> "", q |-> ""]

TokV(t, v) == [t |-> t, v |-> v, q |-> ""]

TokS(v, q) == [t |-> "String", v |-> v, q |-> q]

Eof == Tok("Eof")

Keywords ==
  {"and", "break", "do", "else", "elseif", "end", "false", "for",
   "function", "goto", "if", "in", "local", "nil", "not", "or", "repeat",
   "return", "then", "true", "until", "while"}

\* The text of the fixed tokens, as Display writes them.
FixedText ==
  [Plus |-> "+", Minus |-> "-", Star |-> "*", Slash |-> "/",
   SlashSlash |-> "//", Hat |-> "^", Percent |-> "%", Amp |-> "&",
   Tilde |-> "~", Pipe |-> "|", LtLt |-> "<<", GtGt |-> ">>",
   DotDot |-> "..", DotDotDot |-> "...", Dot |-> ".", Lt |-> "<",
   Le |-> "<=", Gt |-> ">", Ge |-> ">=", EqEq |-> "==", TildeEq |-> "~=",
   Eq |-> "=", Hash |-> "#", Bang |-> "!", OpenParen |-> "(",
   CloseParen |-> ")", OpenBrace |-> "{", CloseBrace |-> "}",
   OpenBracket |-> "[", CloseBracket |-> "]", Semicolon |-> ";",
   Comma |-> ",", Colon |-> ":", ColonColon |-> "::",
   OpenClosingTag |-> "</", LuaStart |-> "{$", LuaEnd |-> "$}",
   Whitespace |-> " ", Eof |-> ""]

\* impl Display for Token
Display(tok) ==
  CASE tok.t = "Identifier" -> tok.v
    [] tok.t = "Number" -> tok.v
    [] tok.t = "HtmlTextChar" -> tok.v
    [] tok.t = "String" ->
         (CASE tok.q = "Double" -> "\"" \o tok.v \o "\""
            [] tok.q = "Single" -> "'" \o tok.v \o "'"
            [] OTHER -> "[[" \o tok.v \o "]]")
    [] tok.t \in Keywords -> tok.t
    [] OTHER -> FixedText[tok.t]

(***************************************************************************)
(* Lexer.  src is the input, p the byte offset current_pos_in_bytes; the   *)
(* current character is the one at offset p, None at the end of input.     *)
(* A TokenizeResult is [p, r, tok]: the offset the attempt leaves behind,  *)
(* r in {"Some", "None", "Error"} and the token of a Some.                 *)
(***************************************************************************)
Cur(src, p) == IF p < Len(src) THEN SubSeq(src, p + 1, p + 1) ELSE None

\* Lexer::advance
advance(src, p) == IF p < Len(src) THEN p + 1 ELSE p

Slice(src, start, end) == SubSeq(src, start + 1, end)

TSome(p, tok) == [p |-> p, r |-> "Some", tok |-> tok]

TNone(p) == [p |-> p, r |-> "None", tok |-> Eof]

TError(p) == [p |-> p, r |-> "Error", tok |-> Eof]

RECURSIVE skip_whitespace(_, _)
skip_whitespace(src, p) ==
  IF IsWhitespaceChar(Cur(src, p)) THEN skip_whitespace(src, advance(src, p))
  ELSE p

SingleChars ==
  [c \in {"+", "*", "^", "%", "&", "|", "#", "(", ")", "}", "]", ";", ",", "!"} |->
     CASE c = "+" -> "Plus" [] c = "*" -> "Star" [] c = "^" -> "Hat"
       [] c = "%" -> "Percent" [] c = "&" -> "Amp" [] c = "|" -> "Pipe"
       [] c = "#" -> "Hash" [] c = "(" -> "OpenParen" [] c = ")" -> "CloseParen"
       [] c = "}" -> "CloseBrace" [] c = "]" -> "CloseBracket"
       [] c = ";" -> "Semicolon" [] c = "," -> "Comma" [] OTHER -> "Bang"]

single_char_token(src, p) ==
  IF Cur(src, p) \in DOMAIN SingleChars
  THEN TSome(advance(src, p), Tok(SingleChars[Cur(src, p)]))
  ELSE TNone(p)

\* short = "" is Option::None
double_char_token_case(src, p, first, second, short, long) ==
  IF Cur(src, p) = first
  THEN IF Cur(src, p + 1) = second THEN TSome(p + 2, Tok(long))
       ELSE IF short # "" THEN TSome(p + 1, Tok(short))
       ELSE TNone(p + 1)
  ELSE TNone(p)

\* The cases of double_char_token that follow the `$` case: a `$` that is
\* not followed by `}` has been consumed when they are tried.
DoubleCharTail(src, p) ==
  LET c == Cur(src, p)
  IN CASE c = "=" -> double_char_token_case(src, p, "=", "=", "Eq", "EqEq")
       [] c = "~" -> double_char_token_case(src, p, "~", "=", "Tilde", "TildeEq")
       [] c = "/" -> double_char_token_case(src, p, "/", "/", "Slash", "SlashSlash")
       [] c = ":" -> double_char_token_case(src, p, ":", ":", "Colon", "ColonColon")
       [] OTHER -> TNone(p)

\* The `$` case returned r: None leaves its offset to the cases after it.
AfterDollar(src, r) == IF r.r # "None" THEN r ELSE DoubleCharTail(src, r.p)

double_char_token(src, p) ==
  LET c == Cur(src, p)
      d == Cur(src, p + 1)
  IN CASE c = "<" ->
            (CASE d = "=" -> TSome(p + 2, Tok("Le"))
               [] d = "<" -> TSome(p + 2, Tok("LtLt"))
               [] d = "/" -> TSome(p + 2, Tok("OpenClosingTag"))
               [] OTHER -> TSome(p + 1, Tok("Lt")))
       [] c = ">" ->
            (CASE d = "=" -> TSome(p + 2, Tok("Ge"))
               [] d = ">" -> TSome(p + 2, Tok("GtGt"))
               [] OTHER -> TSome(p + 1, Tok("Gt")))
       [] c = "{" -> double_char_token_case(src, p, "{", "$", "OpenBrace", "LuaStart")
       [] c = "$" ->
            AfterDollar(src, double_char_token_case(src, p, "$", "}", "", "LuaEnd"))
       [] OTHER -> DoubleCharTail(src, p)

triple_char_token(src, p) ==
  IF Cur(src, p) = "."
  THEN IF Cur(src, p + 1) = "."
       THEN IF Cur(src, p + 2) = "." THEN TSome(p + 3, Tok("DotDotDot"))
            ELSE TSome(p + 2, Tok("DotDot"))
       ELSE TSome(p + 1, Tok("Dot"))
  ELSE TNone(p)

RECURSIVE SkipDigits(_, _)
SkipDigits(src, p) ==
  IF is_numeric(Cur(src, p)) THEN SkipDigits(src, advance(src, p)) ELSE p

\* if self.match_char('.') { digits }
Fraction(src, p) == IF Cur(src, p) = "." THEN SkipDigits(src, p + 1) ELSE p

\* if self.match_char('e') || self.match_char('E') { sign, digits }
Exponent(src, p) ==
  IF Cur(src, p) \in {"e", "E"}
  THEN SkipDigits(src, IF Cur(src, p + 1) \in {"-", "+"}
                       THEN advance(src, p + 2) ELSE p + 1)
  ELSE p

\* Token::Number(&self.src[start..end])
NumberToken(src, start, end) == TSome(end, TokV("Number", Slice(src, start, end)))

\* Lexer::number
lexer_number(src, p) ==
  IF ~is_numeric(Cur(src, p)) THEN TNone(p)
  ELSE NumberToken(src, p, Exponent(src, Fraction(src, SkipDigits(src, p))))

\* A scanning loop that takes the end of the text for the closing quote
ScanToEnd(src, p, quote, escaped) == [p |-> Len(src), finished |-> TRUE]

\* The scanning loop of a single- or double-quoted string: [p, finished].
RECURSIVE ScanQuoted(_, _, _, _)
ScanQuoted(src, p, quote, escaped) ==
  CASE Cur(src, p) = None -> [p |-> p, finished |-> FALSE]
    [] Cur(src, p) = "\\" -> ScanQuoted(src, advance(src, p + 1), quote, TRUE)
    [] Cur(src, p) = quote /\ ~escaped -> [p |-> p + 1, finished |-> TRUE]
    [] Cur(src, p) = quote -> ScanQuoted(src, advance(src, p + 1), quote, FALSE)
    [] OTHER -> ScanQuoted(src, advance(src, p), quote, FALSE)

\* The scanning loop of a long-bracket string: [p, finished].
RECURSIVE ScanBracket(_, _, _)
ScanBracket(src, p, almost_close) ==
  IF Cur(src, p) = None THEN [p |-> p, finished |-> FALSE]
  ELSE IF Cur(src, p) = "]"
       THEN IF almost_close THEN [p |-> p, finished |-> TRUE]
            ELSE ScanBracket(src, advance(src, p), TRUE)
  ELSE ScanBracket(src, advance(src, p), FALSE)

\* The StringType that the opening characters select
OpeningType(src, p) ==
  CASE Cur(src, p) = "\"" -> "Double"
    [] Cur(src, p) = "'" -> "Single"
    [] Cur(src, p) = "[" /\ Cur(src, p + 1) = "[" -> "DoubleBracket"
    [] Cur(src, p) = "[" -> "OpenBracket"
    [] OTHER -> "None"

\* The end of Lexer::string for a quoted string whose scan returned sc
QuotedString(src, start, ty, sc) ==
  IF ~sc.finished THEN TError(sc.p)
  ELSE TSome(sc.p, TokS(Slice(src, start, sc.p - 1), ty))

\* A long-bracket string that keeps the first of its closing brackets
WithClosingBracket(src, start, ty, sc) ==
  IF ~sc.finished THEN TError(sc.p)
  ELSE TSome(advance(src, sc.p), TokS(Slice(src, start, sc.p), ty))

\* The end of Lexer::string for a long-bracket string whose scan returned sc
BracketString(src, start, ty, sc) ==
  IF ~sc.finished THEN TError(sc.p)
  ELSE TSome(advance(src, sc.p), TokS(Slice(src, start, sc.p - 1), ty))

StringOfType(src, p, ty) ==
  CASE ty = "None" -> TNone(p)
    [] ty = "OpenBracket" -> TSome(p + 1, Tok("OpenBracket"))
    [] ty = "DoubleBracket" ->
         BracketString(src, p + 2, ty, ScanBracket(src, p + 2, FALSE))
    [] OTHER ->
         QuotedString(src, p + 1, ty, ScanQuoted(src, p + 1, Cur(src, p), FALSE))

\* Lexer::string
lexer_string(src, p) == StringOfType(src, p, OpeningType(src, p))

RECURSIVE SkipIdentifier(_, _)
SkipIdentifier(src, p) ==
  IF Cur(src, p) # None /\ is_valid_in_identifier(Cur(src, p))
  THEN SkipIdentifier(src, advance(src, p)) ELSE p

\* A match that knows no keyword
AnyWord(end, text) == TSome(end, TokV("Identifier", text))

\* match &self.src[start..end]: a keyword, or Token::Identifier
Word(end, text) ==
  TSome(end, IF text \in Keywords THEN Tok(text) ELSE TokV("Identifier", text))

\* Lexer::identifier_or_keyword
identifier_or_keyword(src, p) ==
  IF Cur(src, p) = None \/ ~is_valid_identifier_start(Cur(src, p)) THEN TNone(p)
  ELSE Word(SkipIdentifier(src, advance(src, p)),
            Slice(src, p, SkipIdentifier(src, advance(src, p))))

RECURSIVE SkipLine(_, _)
SkipLine(src, p) ==
  IF Cur(src, p) # None /\ Cur(src, p) # "\n" THEN SkipLine(src, advance(src, p))
  ELSE p

\* try_all_paths!: the first attempt that is not None decides; an attempt
\* that returns None leaves its offset to the next one.
RECURSIVE lex(_, _)
comment(src, p) ==
  IF Cur(src, p) = "-"
  THEN IF Cur(src, p + 1) = "-" THEN lex(src, SkipLine(src, p + 2))
       ELSE TSome(p + 1, Tok("Minus"))
  ELSE TNone(p)

\* The attempts of lex, in the order in which try_all_paths! makes them
Path(i, src, p) ==
  CASE i = 1 -> single_char_token(src, p)
    [] i = 2 -> double_char_token(src, p)
    [] i = 3 -> triple_char_token(src, p)
    [] i = 4 -> lexer_string(src, p)
    [] i = 5 -> lexer_number(src, p)
    [] i = 6 -> comment(src, p)
    [] OTHER -> identifier_or_keyword(src, p)

RECURSIVE try_all_paths(_, _, _)
\* Attempt i returned a
NextPath(i, src, a) ==
  IF a.r # "None" \/ i = 7 THEN a ELSE try_all_paths(i + 1, src, a.p)

try_all_paths(i, src, p) == NextPath(i, src, Path(i, src, p))

\* Lexer::lex
lex(src, p) == try_all_paths(1, src, skip_whitespace(src, p))

(***************************************************************************)
(* Lexer and Preprocessor state, one record:                               *)
(*   src, pos, emitted_eof, html_text_mode   the Lexer's fields;           *)
(*   allow_unknowns     the mode the Preprocessor switches with            *)
(*                      allow_unknowns / disallow_unknowns;                *)
(*   current, out, first_token               the Preprocessor's fields;    *)
(*   backtracked   history: some try site received InvalidStart from a     *)
(*                 rule that had consumed a token or written output;       *)
(*   unbalanced    history: some markup literal was parsed successfully    *)
(*                 and left a mode counter different from the one it found.*)
(***************************************************************************)
\* Lexer::new
NewLexer(src) ==
  [src |-> src, pos |-> 0, emitted_eof |-> FALSE, html_text_mode |-> 0,
   allow_unknowns |-> 0, current |-> Eof, out |-> "", first_token |-> TRUE,
   backtracked |-> FALSE, unbalanced |-> FALSE]

LSome(s, tok) == [s |-> s, r |-> "Some", tok |-> tok, err |-> "", arg |-> ""]

LError(s, err, arg) == [s |-> s, r |-> "Error", tok |-> Eof, err |-> err, arg |-> arg]

\* An end of input that gives the end marker at every call
EndlessMarkers(s) == LSome(s, Eof)

\* The end of input: one Eof, then None.
EndOfInput(s) ==
  IF s.emitted_eof
  THEN [s |-> s, r |-> "None", tok |-> Eof, err |-> "", arg |-> ""]
  ELSE LSome([s EXCEPT !.emitted_eof = TRUE], Eof)

\* A character that starts no token, while unknowns are allowed, is one
\* opaque text token.
UnknownCharacter(s, p, c) ==
  IF s.allow_unknowns > 0
  THEN LSome([s EXCEPT !.pos = advance(s.src, p)], TokV("HtmlTextChar", c))
  ELSE LError([s EXCEPT !.pos = p], "UnexpectedCharacter", c)

\* Lexer::next_token in Markup-Text mode: c is the current character, p
\* the offset after it
MarkupTextToken(s, c, p) ==
  CASE c = "<" ->
         IF Cur(s.src, p) = "/"
         THEN LSome([s EXCEPT !.pos = p + 1], Tok("OpenClosingTag"))
         ELSE LSome([s EXCEPT !.pos = p], Tok("Lt"))
    [] IsWhitespaceChar(c) -> LSome([s EXCEPT !.pos = p], Tok("Whitespace"))
    [] c = "{" ->
         IF Cur(s.src, p) = "$"
         THEN LSome([s EXCEPT !.pos = p + 1], Tok("LuaStart"))
         ELSE LSome([s EXCEPT !.pos = p], TokV("HtmlTextChar", "{"))
    [] c = None -> EndOfInput(s)
    [] OTHER -> LSome([s EXCEPT !.pos = p], TokV("HtmlTextChar", c))

\* Lexer::next_token in Code mode: token is what lex returned
CodeToken(s, token) ==
  CASE token.r = "Some" -> LSome([s EXCEPT !.pos = token.p], token.tok)
    [] token.r = "Error" ->
         LError([s EXCEPT !.pos = token.p], "UnterminatedStringLiteral", "")
    [] Cur(s.src, token.p) # None ->
         UnknownCharacter(s, token.p, Cur(s.src, token.p))
    [] OTHER -> EndOfInput([s EXCEPT !.pos = token.p])

\* Lexer::next_token
lexer_next_token(s) ==
  IF s.html_text_mode > 0
  THEN MarkupTextToken(s, Cur(s.src, s.pos), advance(s.src, s.pos))
  ELSE CodeToken(s, lex(s.src, s.pos))

\* Lexer::allow_unknowns, Lexer::disallow_unknowns
allow_unknowns(s) == [s EXCEPT !.allow_unknowns = @ + 1]

disallow_unknowns(s) == [s EXCEPT !.allow_unknowns = @ - 1]

\* Lexer::emit_whitespace, Lexer::hide_whitespace: the raw text between tags
\* is scanned in Markup-Text mode, where whitespace is a token.
emit_whitespace(s) == [s EXCEPT !.html_text_mode = @ + 1]

hide_whitespace(s) == [s EXCEPT !.html_text_mode = @ - 1]

(***************************************************************************)
(* Results of the Preprocessor's methods.                                  *)
(***************************************************************************)
Ok(s) == [s |-> s, k |-> "Ok", a |-> "", v |-> "", m |-> ""]

\* Ok(v) of a Result<String>
OkV(s, v) == [s |-> s, k |-> "Ok", a |-> "", v |-> v, m |-> ""]

\* Ok(b) of a Result<bool>, Some and None of an optionally!
OkB(s, b) ==
  [s |-> s, k |-> "Ok", a |-> "", v |-> "", m |-> IF b THEN "yes" ELSE "no"]

Err(s, k, a) == [s |-> s, k |-> k, a |-> a, v |-> "", m |-> ""]

InvalidStart(s) == Err(s, "InvalidStart", "")

write(s, text) == [s EXCEPT !.out = @ \o text]

\* The method that returned r was entered in state s0 and has consumed a
\* token or written output.
Consumed(s0, r) ==
  r.s.pos # s0.pos \/ r.s.out # s0.out \/ r.s.current # s0.current

\* The return of a method entered in s0: that it returns InvalidStart after
\* it has consumed or written is recorded.
Return(s0, r) ==
  [r EXCEPT !.s.backtracked = @ \/ (r.k = "InvalidStart" /\ Consumed(s0, r))]

\* The turn of a loop that began in s0 and ended in s1 has consumed no token:
\* the current token and the lexer's place are what they were, so the next
\* turn begins as this one did.
Idle(s0, s1) ==
  s1.current = s0.current /\ s1.pos = s0.pos /\ s1.emitted_eof = s0.emitted_eof

\* A loop whose turn has consumed nothing and has not left the loop runs
\* without end: the method does not return.
Diverges(s) == [s |-> s, k |-> "Diverges", a |-> "", v |-> "", m |-> ""]

\* require!
require(r, k, a) ==
  [r EXCEPT !.k = IF @ = "InvalidStart" THEN k ELSE @,
            !.a = IF r.k = "InvalidStart" THEN a ELSE @,
            !.v = IF r.k = "InvalidStart" THEN "" ELSE @,
            !.m = IF r.k = "InvalidStart" THEN "" ELSE @]

\* An optionally! that hands the backtrack signal on to its caller
Uncaught(r) == IF r.k = "Ok" THEN OkB(r.s, TRUE) ELSE r

\* optionally!: m is "yes" for Some, "no" for None
optionally(r) ==
  [r EXCEPT !.k = IF @ = "InvalidStart" THEN "Ok" ELSE @,
            !.a = IF r.k \in {"Ok", "InvalidStart"} THEN "" ELSE @,
            !.v = IF r.k \in {"Ok", "InvalidStart"} THEN "" ELSE @,
            !.m = CASE r.k = "Ok" -> "yes" [] r.k = "InvalidStart" -> "no"
                    [] OTHER -> @]

\* self.name(): the methods of the Preprocessor call one another in cycles,
\* so a method is called by its name.
RECURSIVE Rule(_, _)

\* match self.lexer.next_token()? { Some(token) => self.current = token,
\* None => return Err(InvalidStart) }
Current(l) ==
  CASE l.r = "Some" -> Ok([l.s EXCEPT !.current = l.tok])
    [] l.r = "None" -> InvalidStart(l.s)
    [] OTHER -> Err(l.s, l.err, l.arg)

\* Preprocessor::next_token_silent
next_token_silent(s) == Current(lexer_next_token(s))

\* A next_token that writes the space after the token
SpaceAfter(s) ==
  Rule("next_token_silent",
    IF s.current # Eof
    THEN [s EXCEPT !.out = @ \o Display(s.current) \o " ", !.first_token = FALSE]
    ELSE s)

\* Preprocessor::next_token
next_token(s) ==
  Rule("next_token_silent", 
    IF s.current # Eof
    THEN [s EXCEPT !.out = @ \o (IF s.first_token THEN "" ELSE " ")
                             \o Display(s.current),
                   !.first_token = FALSE]
    ELSE s)

\* Preprocessor::match_token
match_token(s, token) ==
  IF s.current = token
  THEN LET r == Rule("next_token", s) IN IF r.k = "Ok" THEN OkB(r.s, TRUE) ELSE r
  ELSE OkB(s, FALSE)

\* Preprocessor::consume_token, with if_not = NeededToken(arg)
consume_token(s, token, arg) ==
  IF s.current = token THEN Rule("next_token", s) ELSE Err(s, "NeededToken", arg)

\* Preprocessor::match_token_silent
match_token_silent(s, token) ==
  IF s.current = token
  THEN LET r == Rule("next_token_silent", s) IN IF r.k = "Ok" THEN OkB(r.s, TRUE) ELSE r
  ELSE OkB(s, FALSE)

\* Preprocessor::consume_token_silent, with if_not = NeededToken(arg)
consume_token_silent(s, token, arg) ==
  IF s.current = token THEN Rule("next_token_silent", s) ELSE Err(s, "NeededToken", arg)

\* The common opening of a rule: if !self.match_token(token)? return InvalidStart
Starts(s, token) ==
  IF s.current = token THEN Rule("next_token", s) ELSE InvalidStart(s)

\* match_token over a list of tokens, joined by || (or by && of negations):
\* the first that matches decides.
match_any(s, kinds) ==
  IF s.current.t \in kinds /\ s.current.v = ""
  THEN match_token(s, s.current)
  ELSE OkB(s, FALSE)

(***************************************************************************)
(* The grammar rules of the Preprocessor.  The steps of a rule are r1, r2, *)
(* ...; the rule returns the result of the first step that is not Ok (the  *)
(* `?` of the source, and the return inside require! and optionally!), and *)
(* a step is evaluated only when the steps before it were Ok.              *)
(***************************************************************************)

\* Token::Number(_) = self.current
number(s) == IF s.current.t = "Number" THEN Rule("next_token", s) ELSE InvalidStart(s)

string(s) == IF s.current.t = "String" THEN Rule("next_token", s) ELSE InvalidStart(s)

identifier(s) ==
  IF s.current.t = "Identifier"
  THEN LET r == Rule("next_token", s) IN IF r.k = "Ok" THEN OkV(r.s, s.current.v) ELSE r
  ELSE InvalidStart(s)

html_string(s) ==
  IF s.current.t = "String"
  THEN LET r == Rule("next_token_silent", s)
       IN IF r.k = "Ok" THEN OkV(r.s, s.current.v) ELSE r
  ELSE InvalidStart(s)

html_identifier(s) ==
  IF s.current.t = "Identifier"
  THEN LET r == Rule("next_token_silent", s)
       IN IF r.k = "Ok" THEN OkV(r.s, s.current.v) ELSE r
  ELSE InvalidStart(s)

boolean(s) ==
  LET r1 == match_any(s, {"true", "false"})
  IN IF r1.k = "Ok" /\ r1.m = "no" THEN InvalidStart(r1.s) ELSE r1

nil_literal(s) == Starts(s, Tok("nil"))

\* alternatives!: the rules are tried in order, each on the state the one
\* before it left; the last one's result is returned as it is.
literal(s) ==
  LET a1 == Rule("number", s)
      a2 == Rule("string", a1.s)
      a3 == Rule("boolean", a2.s)
      a4 == Rule("nil_literal", a3.s)
  IN CASE a1.k # "InvalidStart" -> a1
       [] a2.k # "InvalidStart" -> a2
       [] a3.k # "InvalidStart" -> a3
       [] OTHER -> a4

break_statement(s) == Starts(s, Tok("break"))

goto_statement(s) ==
  LET r1 == Starts(s, Tok("goto"))
      r2 == require(Rule("identifier", r1.s), "NeededToken", "identifier")
  IN CASE r1.k # "Ok" -> r1
       [] OTHER -> r2

do_statement(s) ==
  LET r1 == Starts(s, Tok("do"))
      r2 == require(Rule("block", r1.s), "ExpectedExpression", "")
      r3 == consume_token(r2.s, Tok("end"), "end")
  IN CASE r1.k # "Ok" -> r1
       [] r2.k # "Ok" -> r2
       [] OTHER -> r3

while_statement(s) ==
  LET r1 == Starts(s, Tok("while"))
      r2 == require(Rule("expression", r1.s), "ExpectedExpression", "")
      r3 == consume_token(r2.s, Tok("do"), "do")
      r4 == require(Rule("block", r3.s), "ExpectedExpression", "")
      r5 == consume_token(r4.s, Tok("end"), "end")
  IN CASE r1.k # "Ok" -> r1
       [] r2.k # "Ok" -> r2
       [] r3.k # "Ok" -> r3
       [] r4.k # "Ok" -> r4
       [] OTHER -> r5

repeat_statement(s) ==
  LET r1 == Starts(s, Tok("repeat"))
      r2 == require(Rule("block", r1.s), "ExpectedExpression", "")
      r3 == consume_token(r2.s, Tok("until"), "until")
      r4 == require(Rule("expression", r3.s), "ExpectedExpression", "")
  IN CASE r1.k # "Ok" -> r1
       [] r2.k # "Ok" -> r2
       [] r3.k # "Ok" -> r3
       [] OTHER -> r4

\* expression, `then`, block: the body of an if or elseif branch
ThenBranch(s) ==
  LET r1 == require(Rule("expression", s), "ExpectedExpression", "")
      r2 == consume_token(r1.s, Tok("then"), "then")
      r3 == require(Rule("block", r2.s), "ExpectedExpression", "")
  IN CASE r1.k # "Ok" -> r1
       [] r2.k # "Ok" -> r2
       [] OTHER -> r3

\* loop { if !match_token(ElseIf) break; expression, `then`, block }
RECURSIVE ElseIfLoop(_)
ElseIfLoop(s) ==
  LET r1 == match_token(s, Tok("elseif"))
      r2 == ThenBranch(r1.s)
  IN CASE r1.k # "Ok" -> r1
       [] r1.m = "no" -> Ok(r1.s)
       [] r2.k # "Ok" -> r2
       [] OTHER -> ElseIfLoop(r2.s)

if_statement(s) ==
  LET r1 == Starts(s, Tok("if"))
      r2 == ThenBranch(r1.s)
      r3 == ElseIfLoop(r2.s)
      r4 == match_token(r3.s, Tok("else"))
      r5 == IF r4.m = "yes"
            THEN require(Rule("block", r4.s), "ExpectedExpression", "") ELSE r4
      r6 == consume_token(r5.s, Tok("end"), "end")
  IN CASE r1.k # "Ok" -> r1
       [] r2.k # "Ok" -> r2
       [] r3.k # "Ok" -> r3
       [] r4.k # "Ok" -> r4
       [] r5.k # "Ok" -> r5
       [] OTHER -> r6

\* loop { if !match_token(Comma) break; require!(identifier) }
RECURSIVE CommaIdentifiers(_)
CommaIdentifiers(s) ==
  LET r1 == match_token(s, Tok("Comma"))
      r2 == require(Rule("identifier", r1.s), "NeededToken", "identifier")
  IN CASE r1.k # "Ok" -> r1
       [] r1.m = "no" -> Ok(r1.s)
       [] r2.k # "Ok" -> r2
       [] OTHER -> CommaIdentifiers(r2.s)

\* for name = expression, expression [, expression], after the `=`
ForNumeric(s) ==
  LET r1 == require(Rule("expression", s), "ExpectedExpression", "")
      r2 == consume_token(r1.s, Tok("Comma"), ",")
      r3 == require(Rule("expression", r2.s), "ExpectedExpression", "")
      r4 == match_token(r3.s, Tok("Comma"))
      r5 == require(Rule("expression", r4.s), "ExpectedExpression", "")
  IN CASE r1.k # "Ok" -> r1
       [] r2.k # "Ok" -> r2
       [] r3.k # "Ok" -> r3
       [] r4.k # "Ok" -> r4
       [] r4.m = "no" -> Ok(r4.s)
       [] OTHER -> r5

\* for name {, name} in explist, after the first name
ForGeneric(s) ==
  LET r1 == CommaIdentifiers(s)
      r2 == consume_token(r1.s, Tok("in"), "in")
      r3 == require(Rule("explist", r2.s), "ExpectedExpression", "")
  IN CASE r1.k # "Ok" -> r1
       [] r2.k # "Ok" -> r2
       [] OTHER -> r3

for_statement(s) ==
  LET r1 == Starts(s, Tok("for"))
      r2 == require(Rule("identifier", r1.s), "NeededToken", "identifier")
      r3 == match_token(r2.s, Tok("Eq"))
      r4 == IF r3.m = "yes" THEN ForNumeric(r3.s) ELSE ForGeneric(r3.s)
      r5 == consume_token(r4.s, Tok("do"), "do")
      r6 == require(Rule("block", r5.s), "ExpectedExpression", "")
      r7 == consume_token(r6.s, Tok("end"), "end")
  IN CASE r1.k # "Ok" -> r1
       [] r2.k # "Ok" -> r2
       [] r3.k # "Ok" -> r3
       [] r4.k # "Ok" -> r4
       [] r5.k # "Ok" -> r5
       [] r6.k # "Ok" -> r6
       [] OTHER -> r7

\* loop { if !match_token(Dot) break; require!(identifier) }
RECURSIVE DotIdentifiers(_)
DotIdentifiers(s) ==
  LET r1 == match_token(s, Tok("Dot"))
      r2 == require(Rule("identifier", r1.s), "NeededToken", "identifier")
  IN CASE r1.k # "Ok" -> r1
       [] r1.m = "no" -> Ok(r1.s)
       [] r2.k # "Ok" -> r2
       [] OTHER -> DotIdentifiers(r2.s)

funcname(s) ==
  LET r1 == require(Rule("identifier", s), "NeededToken", "identifier")
      r2 == DotIdentifiers(r1.s)
      r3 == match_token(r2.s, Tok("Colon"))
      r4 == require(Rule("identifier", r3.s), "NeededToken", "identifier")
  IN CASE r1.k # "Ok" -> r1
       [] r2.k # "Ok" -> r2
       [] r3.k # "Ok" -> r3
       [] r3.m = "no" -> Ok(r3.s)
       [] r4.k # "Ok" -> r4
       [] OTHER -> Ok(r4.s)

function_statement(s) ==
  LET r1 == Starts(s, Tok("function"))
      r2 == require(Rule("funcname", r1.s), "NeededToken", "identifier")
      r3 == require(Rule("funcbody", r2.s), "ExpectedExpression", "")
  IN CASE r1.k # "Ok" -> r1
       [] r2.k # "Ok" -> r2
       [] OTHER -> r3

attribute(s) ==
  LET r1 == match_token(s, Tok("Lt"))
      r2 == require(Rule("identifier", r1.s), "NeededToken", "identifier")
      r3 == consume_token(r2.s, Tok("Gt"), ">")
  IN CASE r1.k # "Ok" -> r1
       [] r1.m = "no" -> Ok(r1.s)
       [] r2.k # "Ok" -> r2
       [] OTHER -> r3

\* loop { if !match_token(Comma) break; require!(identifier); attribute()? }
RECURSIVE AttributeNames(_)
AttributeNames(s) ==
  LET r1 == match_token(s, Tok("Comma"))
      r2 == require(Rule("identifier", r1.s), "NeededToken", "identifier")
      r3 == Rule("attribute", r2.s)
  IN CASE r1.k # "Ok" -> r1
       [] r1.m = "no" -> Ok(r1.s)
       [] r2.k # "Ok" -> r2
       [] r3.k # "Ok" -> r3
       [] OTHER -> AttributeNames(r3.s)

attribute_name_list(s) ==
  LET r1 == require(Rule("identifier", s), "NeededToken", "identifier")
      r2 == Rule("attribute", r1.s)
      r3 == AttributeNames(r2.s)
  IN CASE r1.k # "Ok" -> r1
       [] r2.k # "Ok" -> r2
       [] OTHER -> r3

\* local function name funcbody, after `local function`
LocalFunction(s) ==
  LET r1 == require(Rule("identifier", s), "NeededToken", "identifier")
      r2 == require(Rule("funcbody", r1.s), "ExpectedExpression", "")
  IN CASE r1.k # "Ok" -> r1
       [] OTHER -> r2

\* local names [= explist], after `local`
LocalNames(s) ==
  LET r1 == require(Rule("attribute_name_list", s), "NeededToken", "identifier")
      r2 == match_token(r1.s, Tok("Eq"))
      r3 == require(Rule("explist", r2.s), "ExpectedExpression", "")
  IN CASE r1.k # "Ok" -> r1
       [] r2.k # "Ok" -> r2
       [] r2.m = "no" -> Ok(r2.s)
       [] OTHER -> r3

local_starting_statement(s) ==
  LET r1 == Starts(s, Tok("local"))
      r2 == match_token(r1.s, Tok("function"))
  IN CASE r1.k # "Ok" -> r1
       [] r2.k # "Ok" -> r2
       [] r2.m = "yes" -> LocalFunction(r2.s)
       [] OTHER -> LocalNames(r2.s)

\* loop { if !match_token(Comma) break; require!(expression, k) }
RECURSIVE CommaExpressions(_, _)
CommaExpressions(s, k) ==
  LET r1 == match_token(s, Tok("Comma"))
      r2 == require(Rule("expression", r1.s), k, "")
  IN CASE r1.k # "Ok" -> r1
       [] r1.m = "no" -> Ok(r1.s)
       [] r2.k # "Ok" -> r2
       [] OTHER -> CommaExpressions(r2.s, k)

return_statement(s) ==
  LET r1 == Starts(s, Tok("return"))
      r2 == optionally(Rule("expression", r1.s))
      r3 == CommaExpressions(r2.s, "ExpectedExpression")
      r4 == match_token(r3.s, Tok("Semicolon"))
  IN CASE r1.k # "Ok" -> r1
       [] r2.k # "Ok" -> r2
       [] r3.k # "Ok" -> r3
       [] r4.k # "Ok" -> r4
       [] OTHER -> Ok(r4.s)

label(s) ==
  LET r1 == Starts(s, Tok("ColonColon"))
      r2 == require(Rule("identifier", r1.s), "NeededToken", "identifier")
      r3 == consume_token(r2.s, Tok("ColonColon"), "::")
  IN CASE r1.k # "Ok" -> r1
       [] r2.k # "Ok" -> r2
       [] OTHER -> r3

explist(s) ==
  LET r1 == require(Rule("expression", s), "ExpectedVar", "")
  IN CASE r1.k # "Ok" -> r1
       [] OTHER -> CommaExpressions(r1.s, "ExpectedVar")

\* while match_token(Comma) { require!(access_or_call) }
RECURSIVE CommaTargets(_)
CommaTargets(s) ==
  LET r1 == match_token(s, Tok("Comma"))
      r2 == require(Rule("access_or_call", r1.s), "ExpectedExpression", "")
  IN CASE r1.k # "Ok" -> r1
       [] r1.m = "no" -> Ok(r1.s)
       [] r2.k # "Ok" -> r2
       [] OTHER -> CommaTargets(r2.s)

\* The second and later targets of an assignment, after the first comma
TargetList(s) ==
  LET r1 == require(Rule("access_or_call", s), "ExpectedExpression", "")
      r2 == CommaTargets(r1.s)
      r3 == match_token(r2.s, Tok("Eq"))
      r4 == require(Rule("explist", r3.s), "ExpectedExpression", "")
  IN CASE r1.k # "Ok" -> r1
       [] r2.k # "Ok" -> r2
       [] r3.k # "Ok" -> r3
       [] r3.m = "no" -> Ok(r3.s)
       [] OTHER -> r4

call_or_assignment(s) ==
  LET r1 == optionally(Rule("access_or_call", s))
      r2 == match_token(r1.s, Tok("Eq"))
      r3 == match_token(r2.s, Tok("Comma"))
  IN CASE r1.k # "Ok" -> r1
       [] r1.m = "no" -> InvalidStart(r1.s)
       [] r2.k # "Ok" -> r2
       [] r2.m = "yes" -> require(Rule("explist", r2.s), "ExpectedExpression", "")
       [] r3.k # "Ok" -> r3
       [] r3.m = "yes" -> TargetList(r3.s)
       [] OTHER -> Ok(r3.s)

\* alternatives! of statement
StatementAlternatives(s) ==
  LET a1 == Rule("label", s)
      a2 == Rule("break_statement", a1.s)
      a3 == Rule("goto_statement", a2.s)
      a4 == Rule("do_statement", a3.s)
      a5 == Rule("while_statement", a4.s)
      a6 == Rule("repeat_statement", a5.s)
      a7 == Rule("if_statement", a6.s)
      a8 == Rule("for_statement", a7.s)
      a9 == Rule("function_statement", a8.s)
      a10 == Rule("local_starting_statement", a9.s)
      a11 == Rule("call_or_assignment", a10.s)
  IN CASE a1.k # "InvalidStart" -> a1
       [] a2.k # "InvalidStart" -> a2
       [] a3.k # "InvalidStart" -> a3
       [] a4.k # "InvalidStart" -> a4
       [] a5.k # "InvalidStart" -> a5
       [] a6.k # "InvalidStart" -> a6
       [] a7.k # "InvalidStart" -> a7
       [] a8.k # "InvalidStart" -> a8
       [] a9.k # "InvalidStart" -> a9
       [] a10.k # "InvalidStart" -> a10
       [] OTHER -> a11

statement(s) ==
  LET r1 == match_token(s, Tok("Semicolon"))
  IN CASE r1.k # "Ok" -> r1
       [] r1.m = "yes" -> Ok(r1.s)
       [] OTHER -> StatementAlternatives(r1.s)

\* repeat_until_not!(self.statement())
RECURSIVE repeat_until_not_statement(_)
repeat_until_not_statement(s) ==
  LET r == Rule("statement", s)
  IN CASE r.k = "Ok" /\ Idle(s, r.s) -> Diverges(r.s)
       [] r.k = "Ok" -> repeat_until_not_statement(r.s)
       [] r.k = "InvalidStart" -> Ok(r.s)
       [] OTHER -> r

block(s) ==
  LET r1 == repeat_until_not_statement(s)
      r2 == optionally(Rule("return_statement", r1.s))
  IN CASE r1.k # "Ok" -> r1
       [] r2.k # "Ok" -> r2
       [] OTHER -> Ok(r2.s)

chunk(s) == Rule("block", s)

(***************************************************************************)
(* Expressions.                                                            *)
(***************************************************************************)
BinaryOperators ==
  {"Plus", "Minus", "Star", "Slash", "SlashSlash", "Hat", "Percent", "Amp",
   "Tilde", "Pipe", "LtLt", "GtGt", "DotDot", "Lt", "Le", "Gt", "Ge", "EqEq",
   "TildeEq", "and", "or"}

\* loop { if no operator matches break; require!(expression) }
RECURSIVE binary_expression_followup(_)
binary_expression_followup(s) ==
  LET r1 == match_any(s, BinaryOperators)
      r2 == require(Rule("expression", r1.s), "ExpectedExpression", "")
  IN CASE r1.k # "Ok" -> r1
       [] r1.m = "no" -> Ok(r1.s)
       [] r2.k # "Ok" -> r2
       [] Idle(s, r2.s) -> Diverges(r2.s)
       [] OTHER -> binary_expression_followup(r2.s)

unary_expression(s) ==
  LET r1 == match_any(s, {"not", "Hash", "Minus", "Tilde"})
  IN CASE r1.k # "Ok" -> r1
       [] r1.m = "no" -> InvalidStart(r1.s)
       [] OTHER -> require(Rule("expression", r1.s), "ExpectedExpression", "")

function_def(s) ==
  LET r1 == Starts(s, Tok("function"))
  IN CASE r1.k # "Ok" -> r1
       [] OTHER -> require(Rule("funcbody", r1.s), "ExpectedExpression", "")

\* alternatives! of expression
ExpressionAlternatives(s) ==
  LET a1 == Rule("html_template", s)
      a2 == Rule("literal", a1.s)
      a3 == Rule("function_def", a2.s)
      a4 == Rule("access_or_call", a3.s)
      a5 == Rule("table_constructor", a4.s)
      a6 == Rule("unary_expression", a5.s)
  IN CASE a1.k # "InvalidStart" -> a1
       [] a2.k # "InvalidStart" -> a2
       [] a3.k # "InvalidStart" -> a3
       [] a4.k # "InvalidStart" -> a4
       [] a5.k # "InvalidStart" -> a5
       [] OTHER -> a6

expression(s) ==
  LET r1 == ExpressionAlternatives(s)
      r2 == optionally(Rule("binary_expression_followup", r1.s))
  IN CASE r1.k # "Ok" -> r1
       [] r2.k # "Ok" -> r2
       [] OTHER -> Ok(r2.s)

\* ( expression ), after the `(`
Parenthesized(s) ==
  LET r1 == require(Rule("expression", s), "ExpectedVar", "")
  IN CASE r1.k # "Ok" -> r1
       [] OTHER -> consume_token(r1.s, Tok("CloseParen"), ")")

access_or_call(s) ==
  LET r1 == match_token(s, Tok("OpenParen"))
      r2 == IF r1.m = "yes" THEN Parenthesized(r1.s)
            ELSE optionally(Rule("identifier", r1.s))
  IN CASE r1.k # "Ok" -> r1
       [] r2.k # "Ok" -> r2
       [] r1.m = "no" /\ r2.m = "no" -> InvalidStart(r2.s)
       [] OTHER -> Rule("continue_access_or_call", r2.s)

\* `[` expression `]`, after the `[`
Index(s) ==
  LET r1 == require(Rule("expression", s), "ExpectedVar", "")
  IN CASE r1.k # "Ok" -> r1
       [] OTHER -> consume_token(r1.s, Tok("CloseBracket"), "]")

\* `:` identifier args, after the `:`
Method(s) ==
  LET r1 == require(Rule("identifier", s), "NeededToken", "identifier")
  IN CASE r1.k # "Ok" -> r1
       [] OTHER -> require(Rule("args", r1.s), "ExpectedExpression", "")

\* A turn of the loop of continue_access_or_call that began in s0 returned
\* r: the `?`, then the next turn
NextAccess(s0, r) ==
  CASE r.k # "Ok" -> r
    [] Idle(s0, r.s) -> Diverges(r.s)
    [] OTHER -> Rule("continue_access_or_call", r.s)

\* loop { `[`: Index; `.`: identifier; args; `:`: Method; else break }
continue_access_or_call(s) ==
  LET r1 == match_token(s, Tok("OpenBracket"))
      r2 == match_token(r1.s, Tok("Dot"))
      r3 == optionally(Rule("args", r2.s))
      r4 == match_token(r3.s, Tok("Colon"))
  IN CASE r1.k # "Ok" -> r1
       [] r1.m = "yes" -> NextAccess(s, Index(r1.s))
       [] r2.k # "Ok" -> r2
       [] r2.m = "yes" ->
            NextAccess(s, require(Rule("identifier", r2.s), "NeededToken", "identifier"))
       [] r3.k # "Ok" -> r3
       [] r3.m = "yes" -> NextAccess(s, r3)
       [] r4.k # "Ok" -> r4
       [] r4.m = "yes" -> NextAccess(s, Method(r4.s))
       [] OTHER -> Ok(r4.s)

\* ( [explist] ), after the `(`
ParenArgs(s) ==
  LET r1 == match_token(s, Tok("CloseParen"))
      r2 == require(Rule("explist", r1.s), "ExpectedExpression", "")
  IN CASE r1.k # "Ok" -> r1
       [] r1.m = "yes" -> Ok(r1.s)
       [] r2.k # "Ok" -> r2
       [] OTHER -> consume_token(r2.s, Tok("CloseParen"), ")")

args(s) ==
  LET r1 == match_token(s, Tok("OpenParen"))
      r2 == optionally(Rule("table_constructor", r1.s))
      r3 == optionally(Rule("string", r2.s))
  IN CASE r1.k # "Ok" -> r1
       [] r1.m = "yes" -> ParenArgs(r1.s)
       [] r2.k # "Ok" -> r2
       [] r2.m = "yes" -> Ok(r2.s)
       [] r3.k # "Ok" -> r3
       [] r3.m = "yes" -> Ok(r3.s)
       [] OTHER -> InvalidStart(r3.s)

\* while match_token(Comma) { `...` returns; an identifier continues; anything
\* else is ExpectedExpression }
RECURSIVE ParlistLoop(_)
ParlistLoop(s) ==
  LET r1 == match_token(s, Tok("Comma"))
      r2 == match_token(r1.s, Tok("DotDotDot"))
      r3 == optionally(Rule("identifier", r2.s))
  IN CASE r1.k # "Ok" -> r1
       [] r1.m = "no" -> Ok(r1.s)
       [] r2.k # "Ok" -> r2
       [] r2.m = "yes" -> Ok(r2.s)
       [] r3.k # "Ok" -> r3
       [] r3.m = "yes" -> ParlistLoop(r3.s)
       [] OTHER -> Err(r3.s, "ExpectedExpression", "")

parlist(s) ==
  LET r1 == match_token(s, Tok("DotDotDot"))
      r2 == optionally(Rule("identifier", r1.s))
  IN CASE r1.k # "Ok" -> r1
       [] r1.m = "yes" -> Ok(r1.s)
       [] r2.k # "Ok" -> r2
       [] r2.m = "yes" -> ParlistLoop(r2.s)
       [] OTHER -> InvalidStart(r2.s)

funcbody(s) ==
  LET r1 == consume_token(s, Tok("OpenParen"), "(")
      r2 == optionally(Rule("parlist", r1.s))
      r3 == consume_token(r2.s, Tok("CloseParen"), ")")
      r4 == require(Rule("block", r3.s), "ExpectedExpression", "")
      r5 == consume_token(r4.s, Tok("end"), "end")
  IN CASE r1.k # "Ok" -> r1
       [] r2.k # "Ok" -> r2
       [] r3.k # "Ok" -> r3
       [] r4.k # "Ok" -> r4
       [] OTHER -> r5

\* `[` expression `]` `=` expression, after the `[`
KeyedField(s) ==
  LET r1 == require(Rule("expression", s), "ExpectedExpression", "")
      r2 == consume_token(r1.s, Tok("CloseBracket"), "]")
      r3 == consume_token(r2.s, Tok("Eq"), "=")
      r4 == require(Rule("expression", r3.s), "ExpectedExpression", "")
  IN CASE r1.k # "Ok" -> r1
       [] r2.k # "Ok" -> r2
       [] r3.k # "Ok" -> r3
       [] OTHER -> r4

\* The field that starts with an identifier, after the identifier
NamedField(s) ==
  LET r1 == match_token(s, Tok("Eq"))
  IN CASE r1.k # "Ok" -> r1
       [] r1.m = "yes" ->
            require(Rule("expression", r1.s), "ExpectedExpression", "")
       [] OTHER -> Rule("continue_access_or_call", r1.s)

field(s) ==
  LET r1 == optionally(Rule("identifier", s))
      r2 == match_token(r1.s, Tok("OpenBracket"))
      r3 == optionally(Rule("expression", r2.s))
  IN CASE r1.k # "Ok" -> r1
       [] r1.m = "yes" -> NamedField(r1.s)
       [] r2.k # "Ok" -> r2
       [] r2.m = "yes" -> KeyedField(r2.s)
       [] r3.k # "Ok" -> r3
       [] r3.m = "no" -> InvalidStart(r3.s)
       [] OTHER -> Ok(r3.s)

\* loop { if neither `,` nor `;` break; if match_token(CloseBrace) break;
\* require!(field) }
RECURSIVE FieldlistLoop(_)
FieldlistLoop(s) ==
  LET r1 == match_any(s, {"Comma", "Semicolon"})
      r2 == match_token(r1.s, Tok("CloseBrace"))
      r3 == require(Rule("field", r2.s), "ExpectedExpression", "")
  IN CASE r1.k # "Ok" -> r1
       [] r1.m = "no" -> Ok(r1.s)
       [] r2.k # "Ok" -> r2
       [] r2.m = "yes" -> Ok(r2.s)
       [] r3.k # "Ok" -> r3
       [] OTHER -> FieldlistLoop(r3.s)

fieldlist(s) ==
  LET r1 == optionally(Rule("field", s))
  IN CASE r1.k # "Ok" -> r1
       [] r1.m = "no" -> Ok(r1.s)
       [] OTHER -> FieldlistLoop(r1.s)

table_constructor(s) ==
  LET r1 == Starts(s, Tok("OpenBrace"))
      r2 == optionally(Rule("fieldlist", r1.s))
      r3 == consume_token(r2.s, Tok("CloseBrace"), "}")
  IN CASE r1.k # "Ok" -> r1
       [] r2.k # "Ok" -> r2
       [] OTHER -> r3

(***************************************************************************)
(* Markup literals.                                                        *)
(***************************************************************************)
\* `{` expression `}`, after the `{` of an attribute value
BracedValue(s) ==
  LET r1 == require(Rule("expression", s), "ExpectedExpression", "")
  IN CASE r1.k # "Ok" -> r1
       [] OTHER -> consume_token_silent(r1.s, Tok("CloseBrace"), "}")

\* The value of an attribute written without its quotes
UnquotedValue(s) ==
  LET r1 == require(Rule("html_string", s), "NeededToken", "string")
  IN CASE r1.k # "Ok" -> r1
       [] OTHER -> Ok(write(r1.s, r1.v))

\* The quoted value of an attribute
QuotedValue(s) ==
  LET r1 == require(Rule("html_string", s), "NeededToken", "string")
  IN CASE r1.k # "Ok" -> r1
       [] OTHER -> Ok(write(r1.s, "\"" \o r1.v \o "\""))

\* loop { key = optionally!(html_identifier) or break; `=`; value; ", " }
RECURSIVE AttributesLoop(_)
AttributesLoop(s) ==
  LET key == Rule("html_identifier", s)
      r1 == consume_token_silent(key.s, Tok("Eq"), "=")
      r2 == match_token_silent(write(r1.s, key.v \o "="), Tok("OpenBrace"))
      r3 == IF r2.m = "yes" THEN BracedValue(r2.s) ELSE QuotedValue(r2.s)
  IN CASE key.k = "InvalidStart" -> Ok(key.s)
       [] key.k # "Ok" -> key
       [] r1.k # "Ok" -> r1
       [] r2.k # "Ok" -> r2
       [] r3.k # "Ok" -> r3
       [] Idle(s, r3.s) -> Diverges(r3.s)
       [] OTHER -> AttributesLoop(write(r3.s, ", "))

html_attributes(s) ==
  LET r1 == AttributesLoop(write(s, "attrs={"))
  IN CASE r1.k # "Ok" -> r1
       [] OTHER -> Ok(write(r1.s, "}, "))

\* The tokens that end a run of raw text and the list of children
IsTextEnd(token) ==
  token = Tok("Lt") \/ token = Tok("LuaStart") \/ token = Tok("OpenClosingTag")

\* loop { if the current token ends the text break; write it; next_token_silent }
RECURSIVE TextRun(_)
TextRun(s) ==
  LET r1 == Rule("next_token_silent", write(s, Display(s.current)))
  IN CASE IsTextEnd(s.current) -> Ok(s)
       [] r1.k # "Ok" -> r1
       [] Idle(s, r1.s) -> Diverges(r1.s)
       [] OTHER -> TextRun(r1.s)

\* A run of raw text becomes one string literal
TextChild(s) ==
  LET r1 == TextRun(emit_whitespace(write(s, " \"")))
  IN CASE r1.k # "Ok" -> r1
       [] OTHER -> Ok(write(hide_whitespace(r1.s), "\","))

\* An embedded expression that is given no comma
LuaChildBare(s) ==
  LET s1 == disallow_unknowns(s)
      r1 == require(Rule("expression", s1), "ExpectedExpression", "")
      r2 == consume_token_silent(allow_unknowns(r1.s), Tok("LuaEnd"), "$}")
  IN CASE r1.k # "Ok" -> r1
       [] r2.k # "Ok" -> r2
       [] OTHER -> Ok(r2.s)

\* {$ expression $}, after the {$
LuaChild(s) ==
  LET s1 == disallow_unknowns(s)
      r1 == require(Rule("expression", s1), "ExpectedExpression", "")
      r2 == consume_token_silent(allow_unknowns(r1.s), Tok("LuaEnd"), "$}")
  IN CASE r1.k # "Ok" -> r1
       [] r2.k # "Ok" -> r2
       [] OTHER -> Ok(write(r2.s, ","))

\* The loop of html_children
RECURSIVE ChildrenLoop(_)
ChildrenLoop(s) ==
  LET r1 == match_token_silent(s, Tok("LuaStart"))
      r2 == LuaChild(r1.s)
      r3 == optionally(Rule("html_template", r1.s))
      r4 == TextChild(r3.s)
  IN CASE s.current = Tok("OpenClosingTag") -> Ok(s)
       [] r1.k # "Ok" -> r1
       [] r1.m = "yes" /\ r2.k # "Ok" -> r2
       [] r1.m = "yes" /\ Idle(s, r2.s) -> Diverges(r2.s)
       [] r1.m = "yes" -> ChildrenLoop(r2.s)
       [] r3.k # "Ok" -> r3
       [] r3.m = "yes" /\ Idle(s, r3.s) -> Diverges(r3.s)
       [] r3.m = "yes" -> ChildrenLoop(write(r3.s, ","))
       [] IsTextEnd(r3.s.current) -> Ok(r3.s)
       [] r4.k # "Ok" -> r4
       [] Idle(s, r4.s) -> Diverges(r4.s)
       [] OTHER -> ChildrenLoop(r4.s)

html_children(s) ==
  LET r1 == ChildrenLoop(write(s, "children={"))
  IN CASE r1.k # "Ok" -> r1
       [] OTHER -> Ok(write(r1.s, "}"))

\* A markup literal entered in s0 returns Ok in s: whether it left the
\* lexer's counters as it found them is recorded.
Leave(s0, s) ==
  [s EXCEPT !.unbalanced =
     @ \/ s.allow_unknowns # s0.allow_unknowns
       \/ s.html_text_mode # s0.html_text_mode]

OpenElement(tag) == " { tag=\"" \o tag \o "\", "

\* A self-closing element that is given one nil child
NilChild == "children={ nil } }"

SelfClosingChildren == "children={} }"

\* An element with children whose table is not closed
Unclosed == ""

CloseElement == " }"

\* <tag attrs /`>`, after the `/`
SelfClosing(s) ==
  LET r1 == consume_token_silent(s, Tok("Gt"), ">")
  IN CASE r1.k # "Ok" -> r1
       [] OTHER -> Ok(write(r1.s, SelfClosingChildren))

\* `>` children </tag>, after the attributes
WithChildren(s, tag) ==
  LET r1 == consume_token_silent(s, Tok("Gt"), ">")
      r2 == Rule("html_children", r1.s)
      r3 == consume_token_silent(r2.s, Tok("OpenClosingTag"), "</")
      r4 == require(Rule("html_identifier", r3.s), "NeededToken", "identifier")
      r5 == consume_token_silent(r4.s, Tok("Gt"), ">")
  IN CASE r1.k # "Ok" -> r1
       [] r2.k # "Ok" -> r2
       [] r3.k # "Ok" -> r3
       [] r4.k # "Ok" -> r4
       [] r4.v # tag -> InvalidStart(r4.s)
       [] r5.k # "Ok" -> r5
       [] OTHER -> Ok(disallow_unknowns(write(r5.s, CloseElement)))

html_template(s) ==
  LET r1 == match_token_silent(s, Tok("Lt"))
      s1 == allow_unknowns(r1.s)
      r2 == require(Rule("html_identifier", s1), "NeededToken", "identifier")
      r3 == Rule("html_attributes", write(r2.s, OpenElement(r2.v)))
      r4 == match_token_silent(r3.s, Tok("Slash"))
      r5 == IF r4.m = "yes" THEN SelfClosing(r4.s) ELSE WithChildren(r4.s, r2.v)
  IN CASE r1.k # "Ok" -> r1
       [] r1.m = "no" -> InvalidStart(r1.s)
       [] r2.k # "Ok" -> r2
       [] r3.k # "Ok" -> r3
       [] r4.k # "Ok" -> r4
       [] r5.k # "Ok" -> r5
       [] OTHER -> Ok(Leave(s, r5.s))

\* self.name()
Rule(name, s) ==
  Return(s,
    CASE name = "number" -> number(s)
      [] name = "string" -> string(s)
      [] name = "identifier" -> identifier(s)
      [] name = "html_string" -> html_string(s)
      [] name = "html_identifier" -> html_identifier(s)
      [] name = "boolean" -> boolean(s)
      [] name = "nil_literal" -> nil_literal(s)
      [] name = "literal" -> literal(s)
      [] name = "break_statement" -> break_statement(s)
      [] name = "goto_statement" -> goto_statement(s)
      [] name = "do_statement" -> do_statement(s)
      [] name = "while_statement" -> while_statement(s)
      [] name = "repeat_statement" -> repeat_statement(s)
      [] name = "if_statement" -> if_statement(s)
      [] name = "for_statement" -> for_statement(s)
      [] name = "funcname" -> funcname(s)
      [] name = "function_statement" -> function_statement(s)
      [] name = "attribute" -> attribute(s)
      [] name = "attribute_name_list" -> attribute_name_list(s)
      [] name = "local_starting_statement" -> local_starting_statement(s)
      [] name = "return_statement" -> return_statement(s)
      [] name = "label" -> label(s)
      [] name = "explist" -> explist(s)
      [] name = "call_or_assignment" -> call_or_assignment(s)
      [] name = "statement" -> statement(s)
      [] name = "block" -> block(s)
      [] name = "chunk" -> chunk(s)
      [] name = "binary_expression_followup" -> binary_expression_followup(s)
      [] name = "unary_expression" -> unary_expression(s)
      [] name = "function_def" -> function_def(s)
      [] name = "expression" -> expression(s)
      [] name = "access_or_call" -> access_or_call(s)
      [] name = "continue_access_or_call" -> continue_access_or_call(s)
      [] name = "args" -> args(s)
      [] name = "parlist" -> parlist(s)
      [] name = "funcbody" -> funcbody(s)
      [] name = "field" -> field(s)
      [] name = "fieldlist" -> fieldlist(s)
      [] name = "table_constructor" -> table_constructor(s)
      [] name = "html_attributes" -> html_attributes(s)
      [] name = "html_children" -> html_children(s)
      [] name = "html_template" -> html_template(s)
      [] name = "next_token" -> next_token(s)
      [] name = "next_token_silent" -> next_token_silent(s))

(***************************************************************************)
(* Entry points.                                                           *)
(***************************************************************************)
\* lexer.next_token()?.unwrap(): the unwrap of a None panics
First(l) ==
  CASE l.r = "Some" -> Ok([l.s EXCEPT !.current = l.tok])
    [] l.r = "Error" -> Err(l.s, l.err, l.arg)
    [] OTHER -> Err(l.s, "Panic", "unwrap")

\* Preprocessor::new
New(src) == First(lexer_next_token(NewLexer(src)))

\* Preprocessor::preprocess
Preprocessor_preprocess(s) == chunk(s)

\* luax::preprocess
preprocess(src) ==
  LET r1 == New(src)
  IN CASE r1.k # "Ok" -> r1
       [] OTHER -> Preprocessor_preprocess(r1.s)

\* tokenize of the tests: the tokens of a text up to the end of input, or
\* up to the lexer's error.
RECURSIVE tokenize(_, _)
\* tokens.push(token), with the token that lex returned
Push(src, token) ==
  CASE token.r = "Some" -> <<token.tok>> \o tokenize(src, token.p)
    [] token.r = "Error" -> <<Tok("UnterminatedStringLiteral")>>
    [] Cur(src, token.p) # None -> <<Tok("UnexpectedCharacter")>>
    [] OTHER -> <<Eof>>

tokenize(src, p) == Push(src, lex(src, p))

\* The token sequence of a text, as the tests compare it
Tokens(text) == tokenize(text, 0)

(***************************************************************************)
(* The inputs.  Texts are built from small sets of pieces, so that every   *)
(* construct the Preprocessor handles occurs.                              *)
(***************************************************************************)
\* How many elements are wrapped around a markup literal
MaxNest == 1

\* How many times a text is preprocessed: preprocess(preprocess(x)) is 2
MaxPass == 2

\* The longest output that is preprocessed again
MaxOut == 60

\* The longest body of an unterminated string
MaxBody == 2

\* The longest run of raw text built from TextCharacters
MaxText == 3

\* The largest number of attributes of an element
MaxAttrs == 2

\* The largest number of children of an element, and the deepest nesting of
\* a child
MaxChildren == 2

MaxDepth == 1

\* The largest number of calls of Lexer::next_token on one Lexer
MaxCalls == 12

\* Statements of the base language, each a valid program on its own
LuaStatements ==
  {"function hello() end", "function hello(a, b, c) end",
   "local hello = 123 hello = 456", "hello()", "hello(1, 2, 3)",
   "local a = hello(1, 2, 3)", "hello \"world\"", "hello {1, 2, 3}",
   "a.b.c()[1].d()().e = 1", "x = {1,}", "x = {a = 1; b = 2;}", "x = {}",
   "if a then b() elseif c then d() else e() end", "while a do break end",
   "for i = 1, 10 do f(i) end", "for k, v in pairs(t) do end",
   "repeat x = x - 1 until x == 0", "do local y <const> = 1 end",
   "goto done", "::done::", "t.a.b = not c", "x = -1 + #t", "a, b = b, a",
   "x = function(a, ...) end", "f:g(1)", "-- comment\nx = 1 ;",
   "function a.b:c() return end", "local function f() return 1, 2 end"}

\* Valid programs of the base language without a markup literal
LuaPrograms ==
  {""} \cup LuaStatements \cup {st \o " return x" : st \in LuaStatements}

\* A complete statement followed by tokens that start no statement, and a
\* statement after a return
LeftoverPrograms ==
  {st \o rest : st \in {"x = 1", "f()", "do end"},
                rest \in {" )", " end", " }", " until x"}}
  \cup {"return 1 x = 2", "return f()", "return x y()"}

LowercaseTags == {"div", "span"}

ComponentTags == {"Hello"}

SelfClosingForm(tag) == "<" \o tag \o " />"

EmptyForm(tag) == "<" \o tag \o "></" \o tag \o ">"

WithAttribute(tag) == "<" \o tag \o " name=\"world\" />"

Element(tag, children) == "<" \o tag \o ">" \o children \o "</" \o tag \o ">"

\* An element whose closing tag names another element
Mismatched(tag, closing) == "<" \o tag \o "></" \o closing \o ">"

WellFormedLeaves ==
  UNION {{SelfClosingForm(tag), EmptyForm(tag), WithAttribute(tag),
          Element(tag, "hello"), Element(tag, "{$ x $}"),
          Element(tag, "<span />"), Element(tag, "a {$ x $}<b />")} :
         tag \in LowercaseTags \cup ComponentTags}

MismatchedLeaves == {Mismatched("div", "span"), Mismatched("Hello", "div")}

\* A markup literal as a child of an element and inside embedded code
Wrap(e) == {Element("p", e), Element("p", "{$ " \o e \o " $}")}

RECURSIVE Nested(_, _)
Nested(leaves, n) ==
  IF n = 0 THEN leaves
  ELSE Nested(leaves, n - 1) \cup UNION {Wrap(e) : e \in Nested(leaves, n - 1)}

\* The positions of a markup literal: after return, on the right of an
\* assignment, as a call argument
Positions ==
  {[pre |-> "return ", post |-> ""], [pre |-> "x = ", post |-> ""],
   [pre |-> "f(", post |-> ")"], [pre |-> "local x = ", post |-> " return x"]}

In(position, e) == position.pre \o e \o position.post

\* The position of a call argument
CallArgument == [pre |-> "f(", post |-> ")"]

\* Every leaf in every position; the nested literals in the positions of a
\* statement's own expression
WellFormedMarkup ==
  {In(position, e) : position \in Positions, e \in WellFormedLeaves}
  \cup {In(position, e) : position \in Positions \ {CallArgument},
                          e \in Nested(WellFormedLeaves, MaxNest)}

MismatchedMarkup ==
  {In(position, e) : position \in Positions, e \in Nested(MismatchedLeaves, MaxNest)}

\* The texts of length up to n over the characters that matter inside a
\* string
RECURSIVE Bodies(_)
Bodies(n) ==
  IF n = 0 THEN {""}
  ELSE Bodies(n - 1)
       \cup {b \o c : b \in Bodies(n - 1), c \in {"a", "\\", "'", "\"", "]"}}

\* A quoted body is closed, by the rules of the base language: a backslash
\* escapes the character after it, the first quote that is not escaped
\* closes the string.
RECURSIVE ClosesQuoted(_, _, _)
ClosesQuoted(body, i, quote) ==
  IF i > Len(body) THEN FALSE
  ELSE IF SubSeq(body, i, i) = "\\" THEN ClosesQuoted(body, i + 2, quote)
  ELSE IF SubSeq(body, i, i) = quote THEN TRUE
  ELSE ClosesQuoted(body, i + 1, quote)

\* A long-bracket body is closed by the first ]]
ClosesBracket(body) ==
  \E i \in 1..(Len(body) - 1) : SubSeq(body, i, i + 1) = "]]"

\* A string that is opened and not closed before the end of the text
UnterminatedStrings ==
  {"\"" \o b : b \in {b \in Bodies(MaxBody) : ~ClosesQuoted(b, 1, "\"")}}
  \cup {"'" \o b : b \in {b \in Bodies(MaxBody) : ~ClosesQuoted(b, 1, "'")}}
  \cup {"[[" \o b : b \in {b \in Bodies(MaxBody) : ~ClosesBracket(b)}}

\* An unterminated string in code position and as an attribute value
UnterminatedPrograms ==
  {pre \o str : pre \in {"", "x = ", "return ", "f(", "return <a b="},
                str \in UnterminatedStrings}

\* Characters of raw text: a letter, punctuation and a space
TextCharacters == {"a", "#", "-", ".", " "}

\* The runs of raw text of length up to n that begin with a character other
\* than whitespace
RECURSIVE Texts(_)
Texts(n) ==
  IF n = 1 THEN TextCharacters \ {" "}
  ELSE Texts(n - 1) \cup {t \o c : t \in Texts(n - 1), c \in TextCharacters}

\* Raw text without `<`, `{$`, quote or backslash, with the texts of the
\* tests html_with_text, html_with_weird_text and weird_symbols_in_html
RawTexts == Texts(MaxText) \cup {"hello", "hello #world!", "@everyone"}

\* An element whose only child is a run of raw text
TextPrograms == {"return " \o Element("div", t) : t \in RawTexts}

\* Attributes as they are written, src, and the field of the attrs table
\* that stands for each, field: literal values and embedded expressions
Attributes ==
  {[src |-> "class=\"hello\"", field |-> "class=\"hello\""],
   [src |-> "id=\"world\"", field |-> "id=\"world\""],
   [src |-> "n={ x }", field |-> "n=x"],
   [src |-> "on={f(1) + 2}", field |-> "on=f(1) + 2"]}

\* The lists of up to n attributes
RECURSIVE AttributeLists(_)
AttributeLists(n) ==
  IF n = 0 THEN {<<>>}
  ELSE AttributeLists(n - 1)
       \cup {Append(l, a) : l \in {l \in AttributeLists(n - 1) : Len(l) = n - 1},
                            a \in Attributes}

\* The attributes of a list as they follow the tag name
RECURSIVE AttributesSource(_)
AttributesSource(l) ==
  IF l = <<>> THEN "" ELSE " " \o Head(l).src \o AttributesSource(Tail(l))

\* The fields of the attrs table of a list, each followed by `, `
RECURSIVE AttributesFields(_)
AttributesFields(l) ==
  IF l = <<>> THEN "" ELSE Head(l).field \o ", " \o AttributesFields(Tail(l))

\* An element with the attributes of l, self-closing or explicitly empty
AttributePrograms(l) ==
  {"return <div" \o AttributesSource(l) \o " />",
   "return <div" \o AttributesSource(l) \o "></div>"}

\* The element of the test html_with_attrs_with_dash, and its self-closing
\* form
DashPrograms ==
  {"return <div data-hello=\"world\"></div>",
   "return <div data-hello=\"world\" />"}

\* The table literal of an element without attributes
Table(tag, children) ==
  " { tag=\"" \o tag \o "\", attrs={}, children={" \o children \o "} }"

\* An element nested n deep, as it is written, src, and its table, table
RECURSIVE Chain(_)
Chain(n) ==
  IF n = 0 THEN [src |-> "<i />", table |-> Table("i", "")]
  ELSE [src |-> "<p>" \o Chain(n - 1).src \o "<u></u></p>",
        table |-> Table("p", Chain(n - 1).table \o "," \o Table("u", "") \o ",")]

\* The elements that occur as children
Kids ==
  {[src |-> "<span />", table |-> Table("span", "")],
   [src |-> "<b></b>", table |-> Table("b", "")],
   Chain(MaxDepth)}

\* The lists of one to n children
RECURSIVE KidLists(_)
KidLists(n) ==
  IF n = 1 THEN {<<k>> : k \in Kids}
  ELSE KidLists(n - 1)
       \cup {Append(l, k) : l \in {l \in KidLists(n - 1) : Len(l) = n - 1},
                            k \in Kids}

\* The whitespace between sibling elements
Gaps == {"", " ", "\n  "}

\* The children of a list as they are written, with the gap before each
RECURSIVE KidsSource(_, _)
KidsSource(l, gap) ==
  IF l = <<>> THEN "" ELSE gap \o Head(l).src \o KidsSource(Tail(l), gap)

\* The children of a list as they are emitted, each followed by a comma
RECURSIVE KidsTables(_)
KidsTables(l) ==
  IF l = <<>> THEN "" ELSE Head(l).table \o "," \o KidsTables(Tail(l))

\* An element with the children of l
ChildrenPrograms(l) ==
  {"return <div>" \o KidsSource(l, gap) \o gap \o "</div>" : gap \in Gaps}

\* Expressions that are embedded in markup
EmbeddedExpressions == {"hello", "f(1)", "a + 1", "t.k"}

\* Text before and after an embedded expression, as it is written, src, and
\* the children it is expected to become, kids
TextsBefore == {[src |-> "", kids |-> ""], [src |-> "hello ", kids |-> " \"hello \","]}

TextsAfter ==
  {[src |-> "", kids |-> ""], [src |-> "b", kids |-> " \"b\","],
   [src |-> " b c", kids |-> " \" b c\","]}

\* An element with one embedded expression e; pad is the whitespace inside
\* the delimiters
CodeProgram(before, pad, e, after) ==
  "return <div>" \o before.src \o "{$" \o pad \o e \o pad \o "$}"
    \o after.src \o "</div>"

CodePrograms ==
  {CodeProgram(before, pad, e, after) :
     before \in TextsBefore, pad \in {"", " "}, e \in EmbeddedExpressions,
     after \in TextsAfter}

\* An embedded expression that is not followed by its closer
UnclosedCodePrograms ==
  {"return <div>{$ " \o e \o rest :
     e \in EmbeddedExpressions, rest \in {"", " </div>", " y $}</div>", " }</div>"}}

\* A token sequence without the content of its string literals
Shape(tokens) ==
  [i \in DOMAIN tokens |->
     IF tokens[i].t = "String" THEN TokS("", tokens[i].q) ELSE tokens[i]]

\* Elements whose closing tag is missing: the end of the text comes after
\* text, at once, after a child element, after embedded code, and inside a
\* child element
UnclosedElements ==
  {"<div>hello", "<div>", "<div><b></b>", "<div>a <b />", "<div>{$ x $}",
   "<div><span>hi", "<Hello>hi", "<div>--a</div>"}

UnclosedPrograms ==
  {In(position, e) : position \in Positions, e \in UnclosedElements}

\* Table constructors whose field list ends with a separator, followed by
\* the end of the statement, by another closing brace, by a closing
\* parenthesis and by a further field
TrailingSeparatorPrograms ==
  {"x = {1,}", "x = {1;}", "x = {a = 1, 2,}", "return {1,}", "x = {{1,}}",
   "x = {{1;}, 2}", "f({1,})", "x = {[1] = 2;} y = 3"}

\* Raw text and literal attribute values that hold a double quote or a
\* backslash, and the same without them
QuoteTexts == {"say \"hi\"", "a\"b", "\"", "a\\b", "say hi"}

QuoteValues ==
  {[quote |-> "'", text |-> "x\"y"], [quote |-> "'", text |-> "\""],
   [quote |-> "'", text |-> "xy"], [quote |-> "\"", text |-> "xy"]}

\* A program with the text as a child, and with the value as an attribute:
\* the program, src, the characters, text, and the output before and after
\* the string literal that is synthesized for them
QuoteCases ==
  {[src |-> "return <div>" \o text \o "</div>", text |-> text,
    before |-> "return { tag=\"div\", attrs={}, children={ ",
    after |-> ",} }"] : text \in QuoteTexts}
  \cup {[src |-> "return <div a=" \o v.quote \o v.text \o v.quote \o " />",
         text |-> v.text,
         before |-> "return { tag=\"div\", attrs={a=",
         after |-> ", }, children={} }"] : v \in QuoteValues}

QuotePrograms == {c.src : c \in QuoteCases}

\* Two or more comma-separated targets that no `=` follows
TargetListPrograms ==
  {"a, b", "a, b, c", "a.x, b[1]", "a, f()", "a, b return a", "x = 1 a, b",
   "a, b c = 1"}

Inputs ==
  TextPrograms \cup LuaPrograms \cup LeftoverPrograms \cup UnterminatedPrograms
  \cup TrailingSeparatorPrograms \cup TargetListPrograms \cup DashPrograms \cup MismatchedMarkup
  \cup QuotePrograms \cup UnclosedPrograms \cup CodePrograms
  \cup UnclosedCodePrograms
  \cup UNION {AttributePrograms(l) : l \in AttributeLists(MaxAttrs)}
  \cup UNION {ChildrenPrograms(l) : l \in KidLists(MaxChildren)}
  \cup WellFormedMarkup

(***************************************************************************)
(* The program as a state machine: a text is handed to luax::preprocess,   *)
(* which constructs a Preprocessor and runs it; the output of a successful *)
(* run may be handed to preprocess again.                                  *)
(***************************************************************************)
\* No call of url_matches or url_extract
NoUrl ==
  [pattern |-> "", path |-> "", matches |-> "None",
   extract |-> [k |-> "None", params |-> {}]]

\* No call of preprocess_dir
NoDir ==
  [tree |-> {}, before |-> {}, out |-> {}, stack |-> <<>>,
   ret |-> [k |-> "None", n |-> 0, e |-> ""]]

VARIABLES
  source,   \* the text first handed to preprocess
  input,    \* the text handed to preprocess in this pass
  pp,       \* the Preprocessor with its Lexer and output buffer
  result,   \* the Result of the last call: [k, a], k = "None" before it
  phase,    \* "start", "constructed" or "returned"
  pass,     \* which preprocessing of the source this is
  tokens,   \* what the calls of Lexer::next_token on a Lexer have returned
  url,      \* a pattern and a path, and what url_matches and url_extract
            \* returned for them
  dir       \* a call of preprocess_dir: the input tree, the output tree,
            \* the calls in progress and the Result

\* The variables of a Lexer that is driven without a Preprocessor
lexerVars == <<tokens>>

\* The variables of the calls of reluax.url_matches and reluax.url_extract
urlVars == <<url>>

\* The variables of a call of preprocess_dir
dirVars == <<dir>>

\* The variables that preprocess and the Lexer leave alone
utilVars == <<urlVars, dirVars>>

vars == <<source, input, pp, result, phase, pass, lexerVars, utilVars>>

Init ==
  /\ source \in Inputs
  /\ input = source
  /\ pp = NewLexer(source)
  /\ result = [k |-> "None", a |-> ""]
  /\ phase = "start"
  /\ pass = 1
  /\ tokens = <<>>
  /\ url = NoUrl
  /\ dir = NoDir

\* luax::preprocess, its first line: Preprocessor::new(s, &mut buf)?
Construct ==
  /\ phase = "start"
  /\ LET r == New(input)
     IN /\ pp' = r.s
        /\ result' = [k |-> r.k, a |-> r.a]
        /\ phase' = IF r.k = "Ok" THEN "constructed" ELSE "returned"
  /\ UNCHANGED <<source, input, pass, lexerVars, utilVars>>

\* luax::preprocess, the rest: preprocessor.preprocess() and its Result
Preprocess ==
  /\ phase = "constructed"
  /\ LET r == Preprocessor_preprocess(pp)
     IN /\ pp' = r.s
        /\ result' = [k |-> r.k, a |-> r.a]
  /\ phase' = "returned"
  /\ UNCHANGED <<source, input, pass, lexerVars, utilVars>>

\* The String that preprocess returned is handed to preprocess again
Reprocess ==
  /\ phase = "returned"
  /\ result.k = "Ok"
  /\ pass < MaxPass
  /\ Len(pp.out) <= MaxOut
  /\ input' = pp.out
  /\ pp' = NewLexer(pp.out)
  /\ result' = [k |-> "None", a |-> ""]
  /\ phase' = "start"
  /\ pass' = pass + 1
  /\ UNCHANGED <<source, lexerVars, utilVars>>

Next == Construct \/ Preprocess \/ Reprocess

Spec == Init /\ [][Next]_vars

(***************************************************************************)
(* The Lexer on its own, as the tests of tests/lexer.rs drive it: a Lexer  *)
(* is created for a text, in Code mode or switched to Markup-Text mode,    *)
(* and next_token is called on it again and again; the caller stops at the *)
(* first error.                                                            *)
(***************************************************************************)
\* Texts whose lexing does not fail in either mode
LexedTexts ==
  {"", " ", "123", "a b", "x = 1", "-- c\nx", "'s' .. t", "<b>hi</b>",
   "{$ x $}", "a<=b", "f()", "</ {", "hi  !\n", "[[l]]", "1.5e3", "::"}

\* A character that begins no token of the base language, c, followed by
\* post, after a text pre that holds n tokens
NoTokenStarts ==
  {[pre |-> pre.text, n |-> pre.n, c |-> c, post |-> post] :
     pre \in {[text |-> "", n |-> 0], [text |-> "  ", n |-> 0],
              [text |-> "x = ", n |-> 2]},
     c \in {"@", "\r", "?", "$"},
     post \in {"", "a", " 1"}}

UnexpectedTexts == {u.pre \o u.c \o u.post : u \in NoTokenStarts}

\* A quoted string literal: the quote, the characters written between the
\* quotes, body, and what follows the closing quote, post.  The bodies hold
\* an escaped quote, escape sequences in the middle and at the end, and two
\* backslashes
QuotedStrings ==
  {[quote |-> quote, body |-> body, post |-> post] :
     quote \in {"\"", "'"},
     body \in {"a", "a\\\"b", "a\\'b", "a\\nb", "a\\n", "\\\\", "a\\\\"},
     post \in {"", " x", " .. t"}}

QuotedTexts == {q.quote \o q.body \o q.quote \o q.post : q \in QuotedStrings}

\* A run of two or more whitespace characters, after the text pre and
\* before the text post
WhitespaceRuns ==
  {[pre |-> pre, run |-> run, post |-> post] :
     pre \in {"", "a", "hi"}, run \in {"  ", " \n", "\t\t ", "\n\n  "},
     post \in {"", "b", "</p>"}}

WhitespaceTexts == {w.pre \o w.run \o w.post : w \in WhitespaceRuns}

\* A numeral, complete or cut short, and what follows it
NumberTexts ==
  {n \o post : n \in {"1", "12", "1.5", "1.", "1e5", "1E5", "1e+5", "1e-5",
                        "1.5e-3", "1e", "1e+", "1e-", "1.5.2", "1e5e5"},
                post \in {"", " ", "x", ")", " 2", "+3"}}

\* The operators that share their first character with another operator
OperatorTokens ==
  {"Lt", "Le", "LtLt", "OpenClosingTag", "Gt", "Ge", "GtGt", "Eq", "EqEq",
   "Tilde", "TildeEq", "Slash", "SlashSlash", "Colon", "ColonColon", "Dot",
   "DotDot", "DotDotDot"}

\* An operator and the character that follows it
OperatorTexts ==
  {FixedText[t] \o post : t \in OperatorTokens,
                          post \in {"", " ", "x", "1", "=", ".", "<", ">", "/", ":"}}

\* A run of alphanumeric and underscore characters, word, and what follows
\* it, post: keywords, and words that begin or end with a keyword
WordCases ==
  {[word |-> word, post |-> post] :
     word \in {"end", "endx", "end1", "end_", "do", "done", "if", "iff", "nil",
                "_nil", "return", "returnx", "and", "android", "x", "function",
                "Function", "elseif", "elsei"},
     post \in {"", " ", "(", "=1"}}

WordTexts == {w.word \o w.post : w \in WordCases}

\* A long-bracket string: the characters between [[ and the first ]], body,
\* and what follows the ]], post
BracketStrings ==
  {[body |-> body, post |-> post] :
     body \in {"", "a", "a]b", "]a", "a\nb", "a\"b", "[x", "a\\"},
     post \in {"", "]", " x", "[1]", "]]"}}

BracketTexts == {"[[" \o b.body \o "]]" \o b.post : b \in BracketStrings}

\* A single [ that no second [ follows
OpenBracketTexts == {"[", "[1]", "[ [", "[x", "[]", "[\"a\"]", "[]]"}

LexerInit ==
  /\ source \in LexedTexts \cup UnexpectedTexts \cup QuotedTexts
                \cup WhitespaceTexts \cup NumberTexts \cup OperatorTexts
                \cup WordTexts \cup BracketTexts \cup OpenBracketTexts
  /\ input = source
  /\ \E mode \in {0, 1} : pp = [NewLexer(source) EXCEPT !.html_text_mode = mode]
  /\ result = [k |-> "None", a |-> ""]
  /\ phase = "lexing"
  /\ pass = 1
  /\ tokens = <<>>
  /\ url = NoUrl
  /\ dir = NoDir

\* What one call of next_token returned: Ok(Some(tok)), Ok(None) or
\* Err(err(arg))
Returns(l) == [r |-> l.r, tok |-> l.tok, err |-> l.err, arg |-> l.arg]

\* The call lexer.next_token() returned l
Called(l) ==
  /\ pp' = l.s
  /\ tokens' = Append(tokens, Returns(l))
  /\ result' = IF l.r = "Error" THEN [k |-> l.err, a |-> l.arg] ELSE result

\* lexer.next_token()
NextToken ==
  /\ phase = "lexing"
  /\ result.k = "None"
  /\ Len(tokens) < MaxCalls
  /\ Called(lexer_next_token(pp))
  /\ UNCHANGED <<source, input, phase, pass, utilVars>>

LexerNext == NextToken

LexerSpec == LexerInit /\ [][LexerNext]_vars

(***************************************************************************)
(* utils::url_matches and utils::url_extract of mod.rs.  A character       *)
(* iterator over a text is the index i of the character that next() has    *)
(* returned last; the character is None past the end of the text.          *)
(***************************************************************************)
\* chars().next(), the i-th call
CharAt(text, i) == IF i <= Len(text) THEN SubSeq(text, i, i) ELSE None

\* while path_char != pattern_char { path_char = path.next(); if
\* path_char.is_none() { return } }: the index at which the loop ends, 0
\* when it returns
RECURSIVE FindChar(_, _, _)
FindChar(path, q, c) ==
  IF CharAt(path, q) = c THEN q
  ELSE IF CharAt(path, q + 1) = None THEN 0
  ELSE FindChar(path, q + 1, c)

\* while pattern_char != Some('}') { param_name.push(pattern_char.unwrap());
\* pattern_char = pattern.next() }: the index of the `}`, 0 when the unwrap
\* panics at the end of the pattern
RECURSIVE ParamEnd(_, _)
ParamEnd(pattern, p) ==
  IF CharAt(pattern, p) = "}" THEN p
  ELSE IF CharAt(pattern, p) = None THEN 0
  ELSE ParamEnd(pattern, p + 1)

\* while path_char != Some('/') && path_char.is_some() { path_char =
\* path.next() }: the index at which the loop ends
RECURSIVE ValueEnd(_, _)
ValueEnd(path, q) ==
  IF CharAt(path, q) = "/" \/ CharAt(path, q) = None THEN q
  ELSE ValueEnd(path, q + 1)

\* The loop of url_matches, with pattern_char at p and path_char at q
RECURSIVE MatchesLoop(_, _, _, _)
\* after `*`, with the character c that follows it in the pattern
MatchesStar(pattern, path, p, q0) ==
  IF q0 = 0 THEN "false" ELSE MatchesLoop(pattern, path, p, q0)

\* after `{`, with the index e of the `}` and the index q of the end of the
\* value
MatchesParam(pattern, path, e, q) ==
  IF e = 0 THEN "Panic"
  ELSE IF CharAt(path, q) = None THEN "true"
  ELSE MatchesLoop(pattern, path, e + 1, q)

MatchesLoop(pattern, path, p, q) ==
  CASE CharAt(path, q) = None /\ CharAt(pattern, p) \in {None, "*"} -> "true"
    [] CharAt(path, q) = CharAt(pattern, p) ->
         MatchesLoop(pattern, path, p + 1, q + 1)
    [] CharAt(pattern, p) = "*" ->
         IF CharAt(pattern, p + 1) = None THEN "true"
         ELSE MatchesStar(pattern, path, p + 1,
                          FindChar(path, q, CharAt(pattern, p + 1)))
    [] CharAt(pattern, p) = "{" ->
         MatchesParam(pattern, path, ParamEnd(pattern, p + 1), ValueEnd(path, q))
    [] OTHER -> "false"

\* utils::url_matches: "true", "false", or "Panic"
url_matches(pattern, path) == MatchesLoop(pattern, path, 1, 1)

\* params.set(param_name, param_value)
SetParam(params, name, value) ==
  {kv \in params : kv[1] # name} \cup {<<name, value>>}

\* A table returned by url_extract, and its panic
Table_(params) == [k |-> "Ok", params |-> params]

\* The loop of url_extract, with pattern_char at p, path_char at q and the
\* table params
RECURSIVE ExtractLoop(_, _, _, _, _)
ExtractStar(pattern, path, p, q0, params) ==
  IF q0 = 0 THEN Table_(params) ELSE ExtractLoop(pattern, path, p, q0, params)

\* after `{` at p - 1, with the index e of the `}` and the index q1 of the
\* end of the value that begins at q
ExtractParam(pattern, path, p, e, q, q1, params) ==
  IF e = 0 THEN [k |-> "Panic", params |-> params]
  ELSE IF CharAt(path, q1) = None
  THEN Table_(SetParam(params, SubSeq(pattern, p, e - 1), SubSeq(path, q, q1 - 1)))
  ELSE ExtractLoop(pattern, path, e + 1, q1,
                   SetParam(params, SubSeq(pattern, p, e - 1),
                            SubSeq(path, q, q1 - 1)))

ExtractLoop(pattern, path, p, q, params) ==
  CASE CharAt(path, q) = None /\ CharAt(pattern, p) \in {None, "*"} ->
         Table_(params)
    [] CharAt(path, q) = CharAt(pattern, p) ->
         ExtractLoop(pattern, path, p + 1, q + 1, params)
    [] CharAt(pattern, p) = "*" ->
         IF CharAt(pattern, p + 1) = None THEN Table_(params)
         ELSE ExtractStar(pattern, path, p + 1,
                          FindChar(path, q, CharAt(pattern, p + 1)), params)
    [] CharAt(pattern, p) = "{" ->
         ExtractParam(pattern, path, p + 1, ParamEnd(pattern, p + 1), q,
                      ValueEnd(path, q), params)
    [] OTHER -> Table_(params)

\* utils::url_extract
url_extract(pattern, path) == ExtractLoop(pattern, path, 1, 1, {})

\* The patterns and the paths of the tests url_matches and url_extract
Patterns ==
  {"/", "/*/", "/a/*/c", "/a", "/{name}", "/{name}/b", "/{name}/b/{name2}"}

Paths ==
  {"/", "/abc/", "/a/b/c", "/a/b/c/d", "/a/b", "/a/f/c/d", "/a", "/b", "/a/c"}

UrlInit ==
  /\ \E pattern \in Patterns, path \in Paths :
       url = [NoUrl EXCEPT !.pattern = pattern, !.path = path]
  /\ source = "" /\ input = "" /\ pp = NewLexer("")
  /\ result = [k |-> "None", a |-> ""]
  /\ phase = "url" /\ pass = 1 /\ tokens = <<>>
  /\ dir = NoDir

\* reluax.url_matches(pattern, path)
UrlMatches ==
  /\ phase = "url" /\ url.matches = "None"
  /\ url' = [url EXCEPT !.matches = url_matches(url.pattern, url.path)]
  /\ UNCHANGED <<source, input, pp, result, phase, pass, lexerVars, dirVars>>

\* reluax.url_extract(pattern, path)
UrlExtract ==
  /\ phase = "url" /\ url.extract.k = "None"
  /\ url' = [url EXCEPT !.extract = url_extract(url.pattern, url.path)]
  /\ UNCHANGED <<source, input, pp, result, phase, pass, lexerVars, dirVars>>

UrlNext == UrlMatches \/ UrlExtract

UrlSpec == UrlInit /\ [][UrlNext]_vars

(***************************************************************************)
(* preprocess_dir of mod.rs.  A path is the sequence of its components     *)
(* below the root it is joined to; a tree is a set of entries [path, kind, *)
(* text], kind "dir" or "file".  The input tree and the output tree are    *)
(* disjoint directories, and the output root exists.  The recursion is the *)
(* stack of the calls in progress, each [path, output_path, todo,          *)
(* preprocessed] with the entries that read_dir has still to yield;        *)
(* read_dir yields them in any order.                                      *)
(***************************************************************************)
Dir(path) == [path |-> path, kind |-> "dir", text |-> ""]

File(path, text) == [path |-> path, kind |-> "file", text |-> text]

\* path.exists(), path.is_dir()
Exists(tree, path) == \E e \in tree : e.path = path

IsDir(tree, path) == Dir(path) \in tree

\* std::fs::read_dir(path): the names of the entries of a directory
read_dir(tree, path) ==
  {e.path[Len(e.path)] :
     e \in {e \in tree : /\ Len(e.path) = Len(path) + 1
                         /\ SubSeq(e.path, 1, Len(path)) = path}}

\* The index of the last dot of a file name, 0 when it has none
RECURSIVE LastDot(_, _)
LastDot(name, i) ==
  IF i = 0 \/ SubSeq(name, i, i) = "." THEN i ELSE LastDot(name, i - 1)

\* A file name whose every extension is luax
AnyExtension(name) == "luax"

\* Path::extension().unwrap_or_default(): what follows the last dot, unless
\* the name begins with it
extension(name) ==
  IF LastDot(name, Len(name)) <= 1 THEN ""
  ELSE SubSeq(name, LastDot(name, Len(name)) + 1, Len(name))

\* Path::with_extension
with_extension(name, ext) ==
  (IF LastDot(name, Len(name)) <= 1 THEN name
   ELSE SubSeq(name, 1, LastDot(name, Len(name)) - 1)) \o "." \o ext

\* return Err(e): every call in progress returns it
Fails(e) ==
  dir' = [dir EXCEPT !.stack = <<>>, !.ret = [k |-> "Err", n |-> 0, e |-> e]]

\* The call that is running, and the calls in progress once the entry name
\* has been taken from it
Running == dir.stack[Len(dir.stack)]

Taken(name) == [dir.stack EXCEPT ![Len(dir.stack)].todo = @ \ {name}]

\* An entry that read_dir yields to the running call: a directory, a file
\* with another extension, a luax file
Yields(name, kind) ==
  /\ name \in Running.todo
  /\ \E e \in dir.tree : e.path = Append(Running.path, name) /\ e.kind = kind

\* path.is_dir(): the output directory is checked, created unless it
\* exists, and preprocess_dir is called for the entry
EnterDirectory ==
  /\ phase = "dir" /\ dir.stack # <<>>
  /\ \E name \in Running.todo :
       /\ Yields(name, "dir")
       /\ IF /\ ~IsDir(dir.out, Append(Running.output_path, name))
             /\ Exists(dir.out, Append(Running.output_path, name))
          THEN Fails("AlreadyExists")
          ELSE dir' =
                 [dir EXCEPT
                    !.out = @ \cup {Dir(Append(Running.output_path, name))},
                    !.stack =
                      Append(Taken(name),
                             [path |-> Append(Running.path, name),
                              output_path |-> Append(Running.output_path, name),
                              todo |-> read_dir(dir.tree, Append(Running.path, name)),
                              preprocessed |-> 0])]
  /\ UNCHANGED <<source, input, pp, result, phase, pass, lexerVars, urlVars>>

\* if path.extension().unwrap_or_default() != "luax" { continue }
SkipFile ==
  /\ phase = "dir" /\ dir.stack # <<>>
  /\ \E name \in Running.todo :
       /\ Yields(name, "file")
       /\ extension(name) # "luax"
       /\ dir' = [dir EXCEPT !.stack = Taken(name)]
  /\ UNCHANGED <<source, input, pp, result, phase, pass, lexerVars, urlVars>>

\* let s = preprocess(&s)?; std::fs::write(out_path, s)?; preprocessed += 1,
\* with the Result r of preprocess
Write(name, out_path, r) ==
  CASE r.k # "Ok" -> Fails(r.k)
    [] IsDir(dir.out, out_path) -> Fails("IsADirectory")
    [] OTHER ->
         dir' = [dir EXCEPT
                   !.out = {e \in @ : e.path # out_path}
                             \cup {File(out_path, r.s.out)},
                   !.stack = [Taken(name) EXCEPT ![Len(dir.stack)].preprocessed = @ + 1]]

\* A luax file is read, preprocessed and written
PreprocessFile ==
  /\ phase = "dir" /\ dir.stack # <<>>
  /\ \E name \in Running.todo, e \in dir.tree :
       /\ Yields(name, "file")
       /\ e.path = Append(Running.path, name)
       /\ extension(name) = "luax"
       /\ Write(name, Append(Running.output_path, with_extension(name, "lua")),
                preprocess(e.text))
  /\ UNCHANGED <<source, input, pp, result, phase, pass, lexerVars, urlVars>>

\* Ok(preprocessed): the caller adds the count to its own, and the count of
\* the outermost call is the Result
ReturnCount ==
  /\ phase = "dir" /\ dir.stack # <<>>
  /\ Running.todo = {}
  /\ IF Len(dir.stack) = 1
     THEN dir' = [dir EXCEPT
                    !.stack = <<>>,
                    !.ret = [k |-> "Ok", n |-> Running.preprocessed, e |-> ""]]
     ELSE dir' = [dir EXCEPT
                    !.stack =
                      [SubSeq(@, 1, Len(@) - 1) EXCEPT
                         ![Len(dir.stack) - 1].preprocessed =
                           @ + Running.preprocessed]]
  /\ UNCHANGED <<source, input, pp, result, phase, pass, lexerVars, urlVars>>

\* The entries an input tree is made of: luax files, one of them with a
\* syntax error, a file with another extension, a directory and a
\* directory inside it
InputEntries ==
  {File(<<"a.luax">>, "return <div />"), File(<<"a.luax">>, "x = ("),
   File(<<"b.txt">>, "notes"), Dir(<<"sub">>),
   File(<<"sub", "c.luax">>, "return 1"), Dir(<<"sub", "deep">>),
   File(<<"sub", "deep", "e.luax">>, "x = 1")}

\* The entries that the output tree may hold before the call
OutputEntries ==
  {Dir(<<"sub">>), File(<<"sub">>, "old"), Dir(<<"sub", "deep">>),
   File(<<"sub", "deep">>, "old"), File(<<"a.lua">>, "old"),
   Dir(<<"a.lua">>)}

\* The trees of a set of entries: no path twice, and every entry inside a
\* directory of the tree
Trees(entries) ==
  {t \in SUBSET entries :
     \A e \in t :
       /\ \A f \in t : f.path = e.path => f = e
       /\ Len(e.path) > 1 => Dir(SubSeq(e.path, 1, Len(e.path) - 1)) \in t}

DirInit ==
  /\ \E tree \in Trees(InputEntries), out \in Trees(OutputEntries) :
       dir = [tree |-> tree, before |-> out, out |-> out,
              stack |-> <<[path |-> <<>>, output_path |-> <<>>,
                           todo |-> read_dir(tree, <<>>), preprocessed |-> 0]>>,
              ret |-> [k |-> "None", n |-> 0, e |-> ""]]
  /\ source = "" /\ input = "" /\ pp = NewLexer("")
  /\ result = [k |-> "None", a |-> ""]
  /\ phase = "dir" /\ pass = 1 /\ tokens = <<>> /\ url = NoUrl

DirNext == EnterDirectory \/ SkipFile \/ PreprocessFile \/ ReturnCount

DirSpec == DirInit /\ [][DirNext]_vars

(***************************************************************************)
(* Properties.                                                             *)
(***************************************************************************)
\* preprocess has returned from the first preprocessing of the source
Returned == pass = 1 /\ phase = "returned"

Succeeded == phase = "returned" /\ result.k = "Ok"

\* C1: for every valid program of the base language without a markup
\* literal, preprocess succeeds and the token sequence of its output equals
\* the token sequence of the input.
C1_TokenIdentical ==
  (Returned /\ source \in LuaPrograms)
    => (result.k = "Ok" /\ Tokens(pp.out) = Tokens(source))

\* A valid program with a trailing separator in a table constructor has
\* been refused.
C1_TrailingSeparatorRefused ==
  Returned /\ source = "x = {1,}" /\ result = [k |-> "NeededToken", a |-> "}"]

\* C2: preprocess returns an error for every input with an element whose
\* closing tag names another element than its opening tag: after return, on
\* the right of an assignment, as a call argument and as a child of another
\* element.
C2_MismatchedTagFails ==
  (Returned /\ source \in MismatchedMarkup) => result.k # "Ok"

\* A mismatched closing tag after return has been accepted.
C2_MismatchAccepted ==
  Returned /\ source = "return " \o Mismatched("div", "span") /\ result.k = "Ok"

\* C3: preprocess returns success only when the whole input was parsed: at
\* every successful return the lookahead token is the end marker.
C3_SuccessAtEndMarker ==
  Succeeded => pp.current = Eof

\* A stray closing parenthesis after a complete statement has been left
\* unread by a successful preprocess.
C3_LeftoverAccepted ==
  /\ Returned /\ source = "x = 1 )" /\ result.k = "Ok"
  /\ pp.current = Tok("CloseParen")

\* C4: for every input on which preprocess succeeds, preprocessing its
\* output succeeds as well and yields the same token sequence, also when
\* the output ends a children list with a comma before the closing brace.
C4_Idempotent ==
  (pass = 2 /\ phase = "returned")
    => (result.k = "Ok" /\ Tokens(pp.out) = Tokens(input))

\* The translation of an element with a text child has been preprocessed
\* again and refused.
C4_OutputRefused ==
  /\ pass = 2 /\ phase = "returned"
  /\ source = "return " \o Element("div", "hello")
  /\ result.k # "Ok"

\* What the tests expect for a component: a call of its name
ComponentCall(name, attrs, children) ==
  name \o " ({ attrs={" \o attrs \o "}, children={" \o children \o "} })"

\* The translation of an element without attributes and children
EmptyTable(tag) == "{ tag=\"" \o tag \o "\", attrs={}, children={} }"

\* Components, self-closing, with an attribute and with children, and what
\* each is to be translated to
ComponentCases ==
  UNION {{[input |-> SelfClosingForm(name),
           expected |-> ComponentCall(name, "", "")],
          [input |-> WithAttribute(name),
           expected |-> ComponentCall(name, "name=\"world\", ", "")],
          [input |-> Element(name, "<span />"),
           expected |-> ComponentCall(name, "", " " \o EmptyTable("span") \o ",")],
          [input |-> Element(name, "hello"),
           expected |-> ComponentCall(name, "", " \"hello\",")]} :
         name \in ComponentTags}

\* C5: an element whose tag is not a built-in element (an uppercase-initial
\* name) is translated to a call NAME({ attrs={...}, children={...} })
\* without a tag field, be it self-closing, with attributes or with
\* children.
C5_ComponentCall ==
  \A c \in ComponentCases :
    (Returned /\ source = "return " \o c.input)
      => (result.k = "Ok" /\ Tokens(pp.out) = Tokens("return " \o c.expected))

\* A component has been translated to a table with a tag field.
C5_ComponentAsTable ==
  /\ Returned /\ source = "return " \o SelfClosingForm("Hello")
  /\ result.k = "Ok"
  /\ Tokens(pp.out) = Tokens("return " \o EmptyTable("Hello"))

\* C6: for every lowercase tag T without attributes, the self-closing form
\* and the explicit-empty form are translated to the same output, the table
\* literal { tag="T", attrs={}, children={} }.
C6_SelfClosingAsEmpty ==
  \A position \in Positions, tag \in LowercaseTags :
    (Returned /\ source \in {In(position, SelfClosingForm(tag)),
                             In(position, EmptyForm(tag))})
      => /\ result.k = "Ok"
         /\ Tokens(pp.out) = Tokens(In(position, EmptyTable(tag)))
         /\ pp.out = preprocess(In(position, SelfClosingForm(tag))).s.out
         /\ pp.out = preprocess(In(position, EmptyForm(tag))).s.out

\* A self-closing element has been translated.
C6_SelfClosingTranslated ==
  /\ Returned /\ source = "x = " \o SelfClosingForm("span")
  /\ pp.out = "x = { tag=\"span\", attrs={}, children={} }"

\* C7: the nesting depth of the lexer's markup mode is balanced: every
\* successfully parsed markup literal leaves it as it found it, and it is
\* zero when preprocess returns success.
C7_DepthBalanced ==
  Succeeded
    => (pp.allow_unknowns = 0 /\ pp.html_text_mode = 0 /\ ~pp.unbalanced)

\* A self-closing element has been parsed and the depth is left raised.
C7_DepthLeftRaised ==
  /\ Returned /\ source = "return " \o SelfClosingForm("div")
  /\ result.k = "Ok" /\ pp.allow_unknowns = 1 /\ pp.unbalanced

\* C8: a rule that returns the backtrack signal has consumed no token and
\* written no output since it was entered.
C8_BacktrackConsumesNothing ==
  ~pp.backtracked

\* An element with a mismatched closing tag returned the backtrack signal
\* after its translation was written.
C8_BacktrackAfterOutput ==
  /\ Returned /\ source = "x = " \o Mismatched("div", "span")
  /\ pp.backtracked /\ pp.out # "x ="

\* C9: the error returned by preprocess is never the backtrack signal.
C9_NoBacktrackSignal ==
  phase = "returned" => result.k # "InvalidStart"

\* preprocess has returned success for a program whose block ends without
\* a return statement, the rule tried last.
C9_SignalCaught ==
  /\ Returned /\ source = "hello()" /\ result.k = "Ok"
  /\ pp.out = "hello ( )"

\* C10: an input that opens a quoted or long-bracket string and does not
\* close it before its end fails with UnterminatedStringLiteral, in code
\* position and as an attribute value, and the scan stops at the end of
\* the input.
C10_UnterminatedString ==
  (Returned /\ source \in UnterminatedPrograms)
    => (result.k = "UnterminatedStringLiteral" /\ pp.pos = Len(source))

\* An unterminated attribute value has been scanned to the end of the
\* input, over a backslash and a quote of the other kind.
C10_UnterminatedAttribute ==
  /\ Returned /\ source = "return <a b=\"\\'"
  /\ result.k = "UnterminatedStringLiteral" /\ pp.pos = 15

\* C11: a run of raw text between tags is emitted as exactly one
\* double-quoted string-literal child followed by a comma, whose content is
\* the characters of the text in order.
C11_TextIsOneString ==
  \A t \in RawTexts :
    (Returned /\ source = "return " \o Element("div", t))
      => /\ result.k = "Ok"
         /\ pp.out = "return { tag=\"div\", attrs={}, children={ \""
                        \o t \o "\",} }"

\* A run of raw text that begins with two dashes has been read as a comment
\* up to the end of the input, the closing tag included.
C11_TextReadAsComment ==
  /\ Returned /\ source = "return <div>--a</div>"
  /\ result.k = "Ok" /\ pp.pos = Len(source) /\ pp.current = Eof
  /\ pp.out = "return { tag=\"div\", attrs={}, children={ \""

\* C12: each attribute of an element is emitted, in source order, as one
\* field of the attrs table followed by `, `: a literal value as the same
\* literal, an embedded expression as the tokens of the expression; an
\* element without attributes emits attrs={}.
C12_AttributesInOrder ==
  \A l \in AttributeLists(MaxAttrs) :
    (Returned /\ source \in AttributePrograms(l))
      => /\ result.k = "Ok"
         /\ Tokens(pp.out) =
              Tokens("return { tag=\"div\", attrs={" \o AttributesFields(l)
                       \o "}, children={} }")

\* An element with a literal and an expression attribute has been
\* translated.
C12_TwoAttributes ==
  /\ Returned /\ source = "return <div class=\"hello\" n={ x }></div>"
  /\ pp.out = "return { tag=\"div\", attrs={class=\"hello\", n= x, }, children={} }"

\* C13: an attribute whose name contains a dash is accepted and emitted
\* under a bracketed string key, ["data-hello"]="world".
C13_DashedAttribute ==
  (Returned /\ source \in DashPrograms)
    => /\ result.k = "Ok"
       /\ Tokens(pp.out) =
            Tokens("return { tag=\"div\", attrs={[\"data-hello\"]=\"world\", }, "
                     \o "children={} }")

\* The attribute data-hello has been refused at its dash, where an equals
\* sign was needed.
C13_DashRefused ==
  /\ Returned /\ source = "return <div data-hello=\"world\"></div>"
  /\ result = [k |-> "NeededToken", a |-> "="]
  /\ pp.current = Tok("Minus")

\* C14: the children of an element are emitted inside children={...} in
\* source order, each followed by a comma; a nested element, self-closing or
\* not, is emitted as its own complete table literal, to any depth, and
\* whitespace between sibling elements produces no child.
C14_ChildrenInOrder ==
  \A l \in KidLists(MaxChildren) :
    (Returned /\ source \in ChildrenPrograms(l))
      => /\ result.k = "Ok"
         /\ pp.out = "return" \o Table("div", KidsTables(l))

\* Two sibling elements separated by whitespace have been translated.
C14_TwoSiblings ==
  /\ Returned /\ source = "return <div> <span /> <b></b> </div>"
  /\ pp.out = "return" \o Table("div", Table("span", "") \o "," \o Table("b", "") \o ",")

\* C15: a child {$ expr $} is emitted as the tokens of exactly one
\* expression followed by a comma, without quotes; text before or after it
\* becomes separate string-literal children; an expression that is not
\* followed by the closer fails with a needed-token error.
C15_EmbeddedExpression ==
  /\ \A before \in TextsBefore, pad \in {"", " "}, e \in EmbeddedExpressions,
        after \in TextsAfter :
        (Returned /\ source = CodeProgram(before, pad, e, after))
          => /\ result.k = "Ok"
             /\ Shape(Tokens(pp.out)) =
                  Shape(Tokens("return { tag=\"div\", attrs={}, children={"
                                 \o before.kids \o e \o "," \o after.kids \o "} }"))
  /\ (Returned /\ source \in UnclosedCodePrograms)
       => result = [k |-> "NeededToken", a |-> "$}"]

\* An embedded expression after a run of text has been translated.
C15_CodeAfterText ==
  /\ Returned /\ source = "return <div>hello {$ hello $}</div>"
  /\ pp.out = "return { tag=\"div\", attrs={}, children={ \"hello \", hello,} }"

\* The calls of next_token so far that returned the end marker
EndMarkers == {i \in DOMAIN tokens : tokens[i].r = "Some" /\ tokens[i].tok = Eof}

\* C16: when lexing does not fail, the results of repeated next_token
\* calls hold the end marker exactly once, as the last token, and every
\* call after it returns None without an error, in Code mode and in
\* Markup-Text mode.
C16_OneEndMarker ==
  (phase = "lexing" /\ result.k = "None")
    => /\ Cardinality(EndMarkers) <= 1
       /\ \A i \in DOMAIN tokens :
            tokens[i].r = "None" <=> \E j \in EndMarkers : j < i
       /\ Len(tokens) > Len(source) => EndMarkers # {}

\* In Markup-Text mode the end marker has been returned once and the call
\* after it has returned None.
C16_NoneAfterEndMarker ==
  /\ phase = "lexing" /\ source = "<b>hi</b>" /\ pp.html_text_mode = 1
  /\ Len(tokens) = 10
  /\ tokens[9] = [r |-> "Some", tok |-> Eof, err |-> "", arg |-> ""]
  /\ tokens[10].r = "None"

\* C20: in Code mode, when the character at the current position, after
\* whitespace, begins no token, next_token fails with UnexpectedCharacter
\* carrying that character, and the character is not consumed.
C20_UnexpectedCharacter ==
  \A u \in NoTokenStarts :
    (/\ phase = "lexing" /\ pp.html_text_mode = 0
     /\ source = u.pre \o u.c \o u.post /\ Len(tokens) = u.n + 1)
      => /\ tokens[u.n + 1] =
              [r |-> "Error", tok |-> Eof, err |-> "UnexpectedCharacter", arg |-> u.c]
         /\ pp.pos = Len(u.pre)

\* A dollar sign that `}` does not follow has been dropped: the token after
\* it has been returned in its place.
C20_DollarDropped ==
  /\ phase = "lexing" /\ pp.html_text_mode = 0 /\ source = "x = $a"
  /\ Len(tokens) = 3
  /\ tokens[3] = [r |-> "Some", tok |-> TokV("Identifier", "a"), err |-> "", arg |-> ""]
  /\ pp.pos = 6

\* The texts of the tokens before the end marker, with one space between
\* consecutive tokens
RECURSIVE Spaced(_)
Spaced(toks) ==
  IF toks = <<>> \/ Head(toks) = Eof THEN ""
  ELSE IF Len(toks) = 1 \/ toks[2] = Eof THEN Display(Head(toks))
  ELSE Display(Head(toks)) \o " " \o Spaced(Tail(toks))

\* C17: in the output of a program without markup consecutive tokens are
\* separated by exactly one space, no space precedes the first token and
\* nothing is emitted for the end marker; preprocess("") succeeds with
\* empty output.
C17_OneSpaceBetweenTokens ==
  /\ (Returned /\ source \in LuaPrograms /\ result.k = "Ok")
       => pp.out = Spaced(Tokens(source))
  /\ (Returned /\ source = "") => (result.k = "Ok" /\ pp.out = "")

\* A program with a comment and line breaks has been emitted with single
\* spaces.
C17_CommentProgramSpaced ==
  /\ Returned /\ source = "-- comment\nx = 1 ; return x"
  /\ pp.out = "x = 1 ; return x"

\* The segments of a text between its slashes
RECURSIVE Segments(_)
Segments(text) ==
  IF ValueEnd(text, 1) > Len(text) THEN <<text>>
  ELSE <<SubSeq(text, 1, ValueEnd(text, 1) - 1)>>
         \o Segments(SubSeq(text, ValueEnd(text, 1) + 1, Len(text)))

\* The values that the {name} segments of a pattern capture from a path:
\* each names the segment of the path at its place
Captures(pattern, path) ==
  {<<SubSeq(Segments(pattern)[i], 2, Len(Segments(pattern)[i]) - 1),
     Segments(path)[i]>> :
     i \in {i \in DOMAIN Segments(pattern) \cap DOMAIN Segments(path) :
              /\ Len(Segments(pattern)[i]) >= 2
              /\ SubSeq(Segments(pattern)[i], 1, 1) = "{"}}

\* C18: url_extract returns an empty table whenever the path does not
\* match the pattern, and on a match exactly the values captured by the
\* pattern's {name} segments.
C18_ExtractOnlyOnMatch ==
  (phase = "url" /\ url.extract.k # "None")
    => /\ url.extract.k = "Ok"
       /\ url_matches(url.pattern, url.path) = "false"
            => url.extract.params = {}
       /\ url_matches(url.pattern, url.path) = "true"
            => url.extract.params = Captures(url.pattern, url.path)

\* For a path that does not match, url_extract has returned the value
\* captured before the mismatch.
C18_CapturedBeforeMismatch ==
  /\ phase = "url" /\ url.pattern = "/{name}/b" /\ url.path = "/a/c"
  /\ url.matches = "false"
  /\ url.extract = [k |-> "Ok", params |-> {<<"name", "a">>}]

\* The last component of a path
FileName(path) == path[Len(path)]

\* The files of the input tree whose name ends in .luax
LuaxFiles ==
  {e \in dir.tree :
     /\ e.kind = "file" /\ Len(FileName(e.path)) > 5
     /\ SubSeq(FileName(e.path), Len(FileName(e.path)) - 4,
               Len(FileName(e.path))) = ".luax"}

\* The path of a luax file with the same stem and .lua in its place
Mirrored(path) ==
  Append(SubSeq(path, 1, Len(path) - 1),
         SubSeq(FileName(path), 1, Len(FileName(path)) - 5) \o ".lua")

\* C19: on success preprocess_dir returns the number of .luax files of the
\* input tree and for each of them the .lua file with the same stem exists
\* at the mirrored path under the output root; an output subdirectory that
\* exists is reused; a non-directory entry at the path of an output
\* subdirectory makes the call fail; files with other extensions are
\* skipped and not counted.
C19_CountsLuaxFiles ==
  /\ (phase = "dir" /\ dir.ret.k = "Ok")
       => /\ dir.ret.n = Cardinality(LuaxFiles)
          /\ \A f \in LuaxFiles :
               File(Mirrored(f.path), preprocess(f.text).s.out) \in dir.out
          /\ \A o \in dir.out \ dir.before :
               \/ o.kind = "dir" /\ Dir(o.path) \in dir.tree
               \/ \E f \in LuaxFiles : o.path = Mirrored(f.path)
          /\ \A o \in dir.before :
               o \in dir.out \/ \E f \in LuaxFiles : o.path = Mirrored(f.path)
  /\ (/\ phase = "dir" /\ dir.ret.k # "None"
      /\ \E d \in dir.tree, o \in dir.before :
           d.kind = "dir" /\ o.kind = "file" /\ o.path = d.path)
       => dir.ret.k = "Err"

\* A call has succeeded for a tree with luax files at three depths and a
\* file with another extension, with the output subdirectory sub in place
\* before the call.
C19_ExistingDirectoryReused ==
  /\ phase = "dir" /\ dir.ret = [k |-> "Ok", n |-> 3, e |-> ""]
  /\ Dir(<<"sub">>) \in dir.before
  /\ File(<<"b.txt">>, "notes") \in dir.tree
  /\ File(<<"a.lua">>, "return { tag=\"div\", attrs={}, children={} }") \in dir.out
  /\ File(<<"sub", "deep", "e.lua">>, "x = 1") \in dir.out

\* The StringType of a quote
TypeOf(quote) == IF quote = "'" THEN "Single" ELSE "Double"

\* C21: in a single- or double-quoted string a backslash suppresses the
\* closing significance of only the character right after it: an escaped
\* quote does not close the string, and the quote after a complete escape
\* sequence does, so the string is one String token and not
\* UnterminatedStringLiteral.
C21_EscapeCoversOneCharacter ==
  \A q \in QuotedStrings :
    (/\ phase = "lexing" /\ pp.html_text_mode = 0 /\ Len(tokens) = 1
     /\ source = q.quote \o q.body \o q.quote \o q.post)
      => /\ tokens[1] = [r |-> "Some", tok |-> TokS(q.body, TypeOf(q.quote)),
                         err |-> "", arg |-> ""]
         /\ pp.pos = Len(q.body) + 2

\* The closing quote of a string that ends in backslash-n has been skipped
\* and the end of the text reached.
C21_QuoteAfterEscapeSkipped ==
  /\ phase = "lexing" /\ pp.html_text_mode = 0 /\ source = "\"a\\n\""
  /\ tokens = <<[r |-> "Error", tok |-> Eof, err |-> "UnterminatedStringLiteral",
                 arg |-> ""]>>

\* C22: an element whose closing tag is missing before the end of the input
\* makes preprocess return an error, in every expression position: reaching
\* the end marker inside the children of an element never ends in success.
C22_UnclosedElementFails ==
  (Returned /\ source \in UnclosedPrograms) => result.k \notin {"None", "Ok"}

\* preprocess has succeeded for an element that is never closed, and the
\* output ends inside the string literal of its text.
C22_TruncatedOutput ==
  /\ Returned /\ source = "return <div>hello"
  /\ result.k = "Ok"
  /\ pp.out = "return { tag=\"div\", attrs={}, children={ \"hello"

\* C23: a table constructor whose field list ends with a trailing `,` or
\* `;` directly before `}` is accepted, and parsing it consumes exactly that
\* one closing brace: the token after the constructor is left for the
\* enclosing rule, when it is another `}` and when it is not.
C23_TrailingSeparatorAccepted ==
  (Returned /\ source \in TrailingSeparatorPrograms)
    => (result.k = "Ok" /\ Tokens(pp.out) = Tokens(source))

\* The inner constructor of {{1,}} has consumed both closing braces, and the
\* outer one has found the end of the input where it needs its own.
C23_BothBracesConsumed ==
  /\ Returned /\ source = "x = {{1,}}"
  /\ result = [k |-> "NeededToken", a |-> "}"]
  /\ pp.current = Eof
  /\ pp.out = "x = { { 1 , } }"

\* C24: in Markup-Text mode a run of two or more consecutive whitespace
\* characters yields a single whitespace token, not one token per
\* whitespace character: the call that returns the token consumes the run.
C24_WhitespaceRunIsOneToken ==
  \A w \in WhitespaceRuns :
    (/\ phase = "lexing" /\ pp.html_text_mode = 1
     /\ source = w.pre \o w.run \o w.post /\ Len(tokens) = Len(w.pre) + 1)
      => /\ tokens[Len(w.pre) + 1] =
              [r |-> "Some", tok |-> Tok("Whitespace"), err |-> "", arg |-> ""]
         /\ pp.pos = Len(w.pre) + Len(w.run)

\* The two spaces of a text have been returned as two whitespace tokens.
C24_TwoWhitespaceTokens ==
  /\ phase = "lexing" /\ pp.html_text_mode = 1 /\ source = "a  b"
  /\ Len(tokens) = 3
  /\ tokens[2].tok = Tok("Whitespace") /\ tokens[3].tok = Tok("Whitespace")
  /\ pp.pos = 3

\* The body of a double-quoted string literal of the base language denotes
\* the text: a backslash in the body stands before a double quote or a
\* backslash of the text, and every other character stands for itself.
RECURSIVE Denotes(_, _)
Denotes(body, text) ==
  IF body = "" THEN text = ""
  ELSE IF text = "" \/ SubSeq(body, 1, 1) = "\"" THEN FALSE
  ELSE IF SubSeq(body, 1, 1) = "\\"
       THEN /\ Len(body) >= 2
            /\ SubSeq(body, 2, 2) \in {"\"", "\\"}
            /\ SubSeq(body, 2, 2) = SubSeq(text, 1, 1)
            /\ Denotes(SubSeq(body, 3, Len(body)), SubSeq(text, 2, Len(text)))
       ELSE /\ SubSeq(body, 1, 1) = SubSeq(text, 1, 1)
            /\ Denotes(SubSeq(body, 2, Len(body)), SubSeq(text, 2, Len(text)))

\* The output is before, one double-quoted string literal that denotes the
\* text, and after
OneLiteral(out, before, text, after) ==
  /\ Len(out) >= Len(before) + Len(after) + 2
  /\ SubSeq(out, 1, Len(before) + 1) = before \o "\""
  /\ SubSeq(out, Len(out) - Len(after), Len(out)) = "\"" \o after
  /\ Denotes(SubSeq(out, Len(before) + 2, Len(out) - Len(after) - 1), text)

\* C25: every string literal synthesized for markup, for a raw-text child
\* and for a literal attribute value, is one well-formed string literal of
\* the base language that denotes the source characters, also when those
\* characters include a double quote or a backslash.
C25_SynthesizedLiteralWellFormed ==
  \A c \in QuoteCases :
    (Returned /\ source = c.src)
      => /\ result.k = "Ok"
         /\ OneLiteral(pp.out, c.before, c.text, c.after)

\* The text say "hi" has been written between two double quotes as it is.
C25_QuoteNotEscaped ==
  /\ Returned /\ source = "return <div>say \"hi\"</div>" /\ result.k = "Ok"
  /\ pp.out = "return { tag=\"div\", attrs={}, children={ \"say \"hi\"\",} }"

\* A lexer that stands at a position of the text, in each of its modes
LexersAt(text) ==
  {[NewLexer(text) EXCEPT !.pos = p, !.html_text_mode = mode,
                          !.allow_unknowns = unknowns, !.emitted_eof = eof] :
     p \in 0..Len(text), mode \in {0, 1}, unknowns \in {0, 1}, eof \in BOOLEAN}

\* The call of next_token in the lexer l0 returned l: it has consumed a
\* character, or it returned the end marker, None or an error
Advances(l0, l) == l.r \in {"None", "Error"} \/ l.tok = Eof \/ l.s.pos > l0.pos

\* C26: preprocess terminates on every finite input: no turn of a parser
\* loop (statements, operator chain, access-or-call chain, attributes,
\* children, raw text) goes on to the next turn without having consumed a
\* token, and every call of the lexer, at every position of the input and in
\* every mode, consumes at least one character or returns the end marker,
\* None or an error.
C26_Terminates ==
  /\ result.k # "Diverges"
  /\ \A l0 \in LexersAt(input) : Advances(l0, lexer_next_token(l0))

\* The eight turns of an access-or-call chain have consumed the whole input
\* and preprocess has returned.
C26_ChainConsumed ==
  /\ Returned /\ source = "a.b.c()[1].d()().e = 1" /\ result.k = "Ok"
  /\ pp.pos = Len(source) /\ pp.emitted_eof
  /\ pp.out = "a . b . c ( ) [ 1 ] . d ( ) ( ) . e = 1"

\* C27: in the fallback statement rule a list of two or more comma-separated
\* targets must be followed by `=` and an expression list: a program with a
\* target list that no `=` follows fails with an error and is not accepted.
C27_TargetListNeedsAssignment ==
  (Returned /\ source \in TargetListPrograms) => result.k \notin {"None", "Ok"}

\* The two targets a, b on their own have been accepted as a statement.
C27_BareTargetListAccepted ==
  /\ Returned /\ source = "a, b" /\ result.k = "Ok"
  /\ pp.out = "a , b" /\ pp.current = Eof

\* The end of an optional sign and the digits after it
SignedDigits(text, p) ==
  SkipDigits(text, IF Cur(text, p) \in {"-", "+"} THEN p + 1 ELSE p)

\* The end of the numeral that a text begins with: digits, at most one `.`
\* followed by digits, at most one exponent marker with an optional sign and
\* digits
NumeralEnd(text, d) ==
  IF Cur(text, d) \in {"e", "E"} THEN SignedDigits(text, d + 1) ELSE d

\* C28: the numeric scan consumes only digits, at most one `.` followed by
\* digits, and at most one exponent marker with an optional sign and digits:
\* in Code mode the first token of a text that begins with a numeral is the
\* Number whose text is exactly that numeral, and the lexer stands directly
\* after it, so that a non-digit after the exponent sign is left for the next
\* token.
C28_NumberShape ==
  (source \in NumberTexts /\ pp.src = source /\ Len(tokens) = 1
     /\ pp.html_text_mode = 0)
    => /\ tokens[1].r = "Some"
       /\ tokens[1].tok
            = TokV("Number",
                   Slice(source, 0, NumeralEnd(source, Fraction(source, SkipDigits(source, 0)))))
       /\ pp.pos = NumeralEnd(source, Fraction(source, SkipDigits(source, 0)))

\* The x after the exponent sign has become part of the Number token.
C28_CharacterAfterSignConsumed ==
  /\ source = "1e+x" /\ pp.html_text_mode = 0 /\ Len(tokens) = 2
  /\ tokens[1].tok = TokV("Number", "1e+x")
  /\ tokens[2].tok = Eof

\* The operator t is written at the beginning of the text
StartsWith(text, t) ==
  Len(FixedText[t]) <= Len(text) /\ SubSeq(text, 1, Len(FixedText[t])) = FixedText[t]

\* The longest operator written at the beginning of the text
LongestOperator(text) ==
  CHOOSE t \in OperatorTokens :
    /\ StartsWith(text, t)
    /\ \A u \in OperatorTokens :
         StartsWith(text, u) => Len(FixedText[u]) <= Len(FixedText[t])

\* C29: in Code mode every operator token is the longest operator that
\* matches at the current position, the shorter one when the next character
\* does not extend it, and a run of alphanumeric and underscore characters
\* is a keyword token only when the whole run is a keyword, and one
\* Identifier otherwise.
C29_LongestMatch ==
  (pp.src = source /\ pp.html_text_mode = 0 /\ Len(tokens) = 1)
    => /\ source \in OperatorTexts
            => /\ tokens[1].tok = Tok(LongestOperator(source))
               /\ pp.pos = Len(FixedText[LongestOperator(source)])
       /\ \A w \in WordCases :
            source = w.word \o w.post
              => /\ tokens[1].tok = (IF w.word \in Keywords THEN Tok(w.word)
                                      ELSE TokV("Identifier", w.word))
                 /\ pp.pos = Len(w.word)

\* The text <. has been read as the shorter operator Lt, then Dot, then the
\* end marker.
C29_ShortOperatorThenDot ==
  /\ source = "<." /\ pp.html_text_mode = 0 /\ Len(tokens) = 3
  /\ tokens[1].tok = Tok("Lt") /\ tokens[2].tok = Tok("Dot") /\ tokens[3].tok = Eof

\* C30: a String token's text is exactly the characters strictly between
\* its delimiters, the quotes or [[ and ]], and its StringType records the
\* kind of delimiter; a long-bracket string closes at the first two
\* consecutive ] characters and lexing resumes at the character after them;
\* a single [ that no [ follows is the OpenBracket token.
C30_StringBetweenDelimiters ==
  (phase = "lexing" /\ pp.html_text_mode = 0 /\ Len(tokens) = 1)
    => /\ \A q \in QuotedStrings :
            (source = q.quote \o q.body \o q.quote \o q.post /\ tokens[1].r = "Some")
              => /\ tokens[1].tok = TokS(q.body, TypeOf(q.quote))
                 /\ pp.pos = Len(q.body) + 2
       /\ \A b \in BracketStrings :
            source = "[[" \o b.body \o "]]" \o b.post
              => /\ tokens[1].r = "Some"
                 /\ tokens[1].tok = TokS(b.body, "DoubleBracket")
                 /\ pp.pos = Len(b.body) + 4
       /\ source \in OpenBracketTexts
            => tokens[1].r = "Some" /\ tokens[1].tok = Tok("OpenBracket") /\ pp.pos = 1

\* The long-bracket string [[a]b]] followed by ] has been read: the single ]
\* inside it does not close it, and the ] after it is the next token.
C30_BracketStringThenBracket ==
  /\ phase = "lexing" /\ pp.html_text_mode = 0 /\ source = "[[a]b]]]"
  /\ Len(tokens) = 3
  /\ tokens[1].tok = TokS("a]b", "DoubleBracket")
  /\ tokens[2].tok = Tok("CloseBracket") /\ tokens[3].tok = Eof

====
